---- MODULE Spec2Model ----
(***************************************************************************)
(* Model of the metric schema-inference and slicing engine of              *)
(* iris_chat_to_chart (server_python/app/services): DataAnalysisService,   *)
(* MetricsService and the cache in front of IrisApiService.                *)
(*                                                                         *)
(* Text (keys, metric names, dates, messages) is a sequence of one-        *)
(* character strings, so that lower(), "in", startswith() and split() are  *)
(* computed and not assumed.  A JSON value is a record                     *)
(*   [t, n, s, ks, vs]                                                     *)
(* with t the Python type of the parsed value: "null", "bool", "int",      *)
(* "float", "str", "list", "dict".  n holds an int, a bool (0/1) or a      *)
(* float in tenths; s the text of a str; ks/vs the keys and values of a    *)
(* dict in insertion order; vs the items of a list.                        *)
(***************************************************************************)
EXTENDS Integers, Sequences, FiniteSets, TLC

VARIABLES
    cache,          \* MetricsService.cache: cache key -> document, or Absent
    data_analysis,  \* MetricsService.data_analysis
    tasks,          \* the calls of load / get_data_analysis / slice in flight
    doc,            \* the document handed to analyze_data and to slice
    analysis,       \* what analyze_data returned for doc
    request,        \* the arguments of the slice call made on doc
    result,         \* what that call returned or raised
    classified_key, \* _detect_value_type: its key argument
    classified_sample, \* _detect_value_type: its sample_value argument
    value_type,     \* _detect_value_type: what it returned
    catalog,        \* _generate_chart_suggestions: its metrics argument
    suggestions,    \* _generate_chart_suggestions: what it returned
    arguments,      \* the arguments of a call of one of the pure helpers
    returned        \* what that call returned or raised

serviceVars == <<cache, data_analysis, tasks>>

engineVars == <<doc, analysis, request, result>>

typeVars == <<classified_key, classified_sample, value_type>>

rankVars == <<catalog, suggestions>>

callVars == <<arguments, returned>>

vars == <<serviceVars, engineVars, typeVars, rankVars, callVars>>

(***************************************************************************)
(* Text                                                                    *)
(***************************************************************************)
UpperChars == <<"A", "B", "C", "D", "E", "F", "G", "H", "I", "J", "K", "L", "M",
                "N", "O", "P", "Q", "R", "S", "T", "U", "V", "W", "X", "Y", "Z">>

LowerChars == <<"a", "b", "c", "d", "e", "f", "g", "h", "i", "j", "k", "l", "m",
                "n", "o", "p", "q", "r", "s", "t", "u", "v", "w", "x", "y", "z">>

DigitChars == <<"0", "1", "2", "3", "4", "5", "6", "7", "8", "9">>

IsUpper(c) == \E i \in 1..26 : UpperChars[i] = c

IsLowerChar(c) == \E i \in 1..26 : LowerChars[i] = c

IsDigit(c) == \E i \in 1..10 : DigitChars[i] = c

\* str.isalnum() for one character of the ASCII range
IsAlnumChar(c) == IsUpper(c) \/ IsLowerChar(c) \/ IsDigit(c)

LowerChar(c) == IF IsUpper(c) THEN LowerChars[CHOOSE i \in 1..26 : UpperChars[i] = c] ELSE c

\* str.lower()
Lower(s) == [i \in 1..Len(s) |-> LowerChar(s[i])]

\* needle in hay
Contains(hay, needle) ==
    \E i \in 0..(Len(hay) - Len(needle)) : SubSeq(hay, i + 1, i + Len(needle)) = needle

\* s.startswith(p)
StartsWith(s, p) == Len(p) <= Len(s) /\ SubSeq(s, 1, Len(p)) = p

\* s.split(c) for a one-character separator: the pieces between separators
RECURSIVE SplitOn(_, _)
SplitOn(s, c) ==
    IF \A i \in 1..Len(s) : s[i] # c
    THEN <<s>>
    ELSE LET k == CHOOSE i \in 1..Len(s) : s[i] = c /\ \A j \in 1..(i - 1) : s[j] # c
         IN  <<SubSeq(s, 1, k - 1)>> \o SplitOn(SubSeq(s, k + 1, Len(s)), c)

\* sep.join(parts)
RECURSIVE JoinWith(_, _)
JoinWith(parts, sep) ==
    IF parts = <<>> THEN <<>>
    ELSE IF Len(parts) = 1 THEN parts[1]
    ELSE parts[1] \o sep \o JoinWith(Tail(parts), sep)

\* str.strip() on blanks
RECURSIVE Strip(_)
Strip(s) ==
    IF s = <<>> THEN s
    ELSE IF s[1] = " " THEN Strip(Tail(s))
    ELSE IF s[Len(s)] = " " THEN Strip(SubSeq(s, 1, Len(s) - 1))
    ELSE s

\* str(n) for a natural number
RECURSIVE IntToStr(_)
IntToStr(n) ==
    IF n < 10 THEN <<DigitChars[n + 1]>>
    ELSE IntToStr(n \div 10) \o <<DigitChars[(n % 10) + 1]>>

\* seq[:k]
Take(seq, k) == SubSeq(seq, 1, IF Len(seq) < k THEN Len(seq) ELSE k)

\* the concatenation of a sequence of sequences
RECURSIVE Flatten(_)
Flatten(ss) == IF ss = <<>> THEN <<>> ELSE ss[1] \o Flatten(Tail(ss))

\* the items of seq at the positions that satisfy keep, in order
RECURSIVE KeepAt(_, _)
KeepAt(seq, keep) ==
    IF seq = <<>> THEN <<>>
    ELSE LET n == Len(seq)
             front == KeepAt(SubSeq(seq, 1, n - 1), keep)
         IN  IF n \in keep THEN Append(front, seq[n]) ELSE front

\* the positions of seq that satisfy keep, ascending
RECURSIVE Ascending(_)
Ascending(S) ==
    IF S = {} THEN <<>>
    ELSE LET m == CHOOSE x \in S : \A y \in S : x <= y
         IN  <<m>> \o Ascending(S \ {m})

(***************************************************************************)
(* JSON values                                                             *)
(***************************************************************************)
Null == [t |-> "null", n |-> 0, s |-> <<>>, ks |-> <<>>, vs |-> <<>>]

IntV(n) == [t |-> "int", n |-> n, s |-> <<>>, ks |-> <<>>, vs |-> <<>>]

\* a float, held in tenths: FltV(15) is 1.5
FltV(n) == [t |-> "float", n |-> n, s |-> <<>>, ks |-> <<>>, vs |-> <<>>]

BoolV(b) == [t |-> "bool", n |-> IF b THEN 1 ELSE 0, s |-> <<>>, ks |-> <<>>, vs |-> <<>>]

StrV(s) == [t |-> "str", n |-> 0, s |-> s, ks |-> <<>>, vs |-> <<>>]

ListV(vs) == [t |-> "list", n |-> 0, s |-> <<>>, ks |-> <<>>, vs |-> vs]

DictV(ks, vs) == [t |-> "dict", n |-> 0, s |-> <<>>, ks |-> ks, vs |-> vs]

IsDict(v) == v.t = "dict"

IsList(v) == v.t = "list"

IsStr(v) == v.t = "str"

\* isinstance(v, (int, float)): bool is a subclass of int
IsNumber(v) == v.t \in {"int", "float", "bool"}

\* bool(v)
Truthy(v) ==
    CASE v.t = "null" -> FALSE
      [] v.t \in {"int", "float", "bool"} -> v.n # 0
      [] v.t = "str" -> v.s # <<>>
      [] v.t = "list" -> v.vs # <<>>
      [] v.t = "dict" -> v.ks # <<>>

\* key in d
HasKey(d, key) == \E i \in 1..Len(d.ks) : d.ks[i] = key

\* d[key], for a key of d
Item(d, key) == d.vs[CHOOSE i \in 1..Len(d.ks) : d.ks[i] = key]

\* d.get(key, default)
GetOr(d, key, default) == IF HasKey(d, key) THEN Item(d, key) ELSE default

\* d.get(key)
Get(d, key) == GetOr(d, key, Null)

s_date == <<"d", "a", "t", "e">>

s_value == <<"v", "a", "l", "u", "e">>

s_dates == <<"d", "a", "t", "e", "s">>

s_values == <<"v", "a", "l", "u", "e", "s">>

s_label == <<"l", "a", "b", "e", "l">>

s_connector == <<"c", "o", "n", "n", "e", "c", "t", "o", "r">>

s_name == <<"n", "a", "m", "e">>

s_officialName == <<"o", "f", "f", "i", "c", "i", "a", "l", "N", "a", "m", "e">>

s_Unknown == <<"U", "n", "k", "n", "o", "w", "n">>

s_margin == <<"m", "a", "r", "g", "i", "n">>

s_percentage == <<"p", "e", "r", "c", "e", "n", "t", "a", "g", "e">>

(***************************************************************************)
(* DataAnalysisService: value types and descriptions                       *)
(***************************************************************************)
currency_keywords ==
    << <<"s", "a", "l", "e", "s">>, <<"r", "e", "v", "e", "n", "u", "e">>,
       <<"i", "n", "c", "o", "m", "e">>, <<"p", "r", "o", "f", "i", "t">>,
       <<"c", "a", "s", "h">>, <<"e", "x", "p", "e", "n", "s", "e", "s">>,
       <<"c", "o", "s", "t">>, <<"b", "a", "l", "a", "n", "c", "e">>,
       <<"a", "m", "o", "u", "n", "t">> >>

percentage_keywords ==
    << s_percentage, <<"r", "a", "t", "e">>, <<"r", "a", "t", "i", "o">> >>

count_keywords ==
    << <<"o", "r", "d", "e", "r", "s">>, <<"c", "u", "s", "t", "o", "m", "e", "r", "s">>,
       <<"c", "o", "u", "n", "t">>, <<"u", "s", "e", "r", "s">>, <<"t", "o", "t", "a", "l">> >>

\* any(keyword in text for keyword in keywords)
AnyKeywordIn(keywords, text) == \E i \in 1..Len(keywords) : Contains(text, keywords[i])

\* isinstance(v, (int, float)) and v == int(v)
IsIntegral(v) == IsNumber(v) /\ (v.t = "float" => v.n % 10 = 0)

DetectValueType(key, sample_value) ==
    LET key_lower == Lower(key)
    IN  IF /\ AnyKeywordIn(currency_keywords, key_lower)
           /\ \/ (Contains(key_lower, s_margin) /\ ~Contains(key_lower, s_percentage))
              \/ ~Contains(key_lower, s_margin)
        THEN "currency"
        ELSE IF AnyKeywordIn(percentage_keywords, key_lower) THEN "percentage"
        ELSE IF AnyKeywordIn(count_keywords, key_lower) /\ IsIntegral(sample_value)
        THEN "count"
        ELSE "generic"

\* re.sub(r'([A-Z])', r' \1', key)
RECURSIVE SpaceBeforeUpper(_)
SpaceBeforeUpper(key) ==
    IF key = <<>> THEN <<>>
    ELSE (IF IsUpper(key[1]) THEN <<" ", key[1]>> ELSE <<key[1]>>)
         \o SpaceBeforeUpper(Tail(key))

KeyWords(key) == Strip(Lower(SpaceBeforeUpper(key)))

GenerateMetricDescription(key, metric_type) ==
    LET key_words == KeyWords(key)
    IN  CASE metric_type = "scalar" ->
               <<"T", "o", "t", "a", "l", " ">> \o key_words
          [] metric_type = "timeSeries" ->
               key_words \o <<" ", "o", "v", "e", "r", " ", "t", "i", "m", "e">>
          [] metric_type = "groupedSeries" ->
               key_words \o <<" ", "b", "r", "o", "k", "e", "n", " ", "d", "o", "w", "n",
                               " ", "b", "y", " ", "c", "a", "t", "e", "g", "o", "r", "y",
                               " ", "o", "v", "e", "r", " ", "t", "i", "m", "e">>
          [] metric_type = "array" ->
               key_words \o <<" ", "d", "a", "t", "a", " ", "p", "o", "i", "n", "t", "s">>
          [] metric_type = "dynamicKeyObject" ->
               key_words \o <<" ", "b", "r", "e", "a", "k", "d", "o", "w", "n", " ", "b", "y",
                               " ", "a", "c", "c", "o", "u", "n", "t", "/", "e", "n", "t",
                               "i", "t", "y">>
          [] metric_type = "embeddedMetrics" ->
               key_words \o <<" ", "w", "i", "t", "h", " ", "m", "u", "l", "t", "i", "p",
                               "l", "e", " ", "m", "e", "t", "r", "i", "c", "s">>
          [] OTHER -> key_words

(***************************************************************************)
(* DataAnalysisService: schema inference.  Every operator returns          *)
(* [exc, metrics]: exc = "none" and the MetricInfo list it returned, or    *)
(* the exception it raised.                                                *)
(***************************************************************************)
Ok(ms) == [exc |-> "none", metrics |-> ms]

Raised(e) == [exc |-> e, metrics |-> <<>>]

\* pydantic's validation of MetricInfo.groupingFields: List[str] refuses None
MetricInfo(name, type, description, sampleValue, valueType, isTimeGrouped, groupingFields) ==
    IF \E i \in 1..Len(groupingFields) : groupingFields[i].t = "null"
    THEN Raised("ValidationError")
    ELSE Ok(<< [name |-> name, type |-> type, description |-> description,
                sampleValue |-> sampleValue, valueType |-> valueType,
                isTimeGrouped |-> isTimeGrouped, groupingFields |-> groupingFields] >>)

\* [item.get(key) for item in items]: .get exists on a dict only
AllDicts(items) == \A i \in 1..Len(items) : IsDict(items[i])

GetEach(items, key) == [i \in 1..Len(items) |-> Get(items[i], key)]

\* the label with no fallback to "label" and "name"
ItemLabelConnector(item) ==
    IF Truthy(Get(item, s_connector)) THEN Get(item, s_connector) ELSE StrV(s_Unknown)

\* item.get("connector") or item.get("label") or item.get("name") or "Unknown"
ItemLabel(item) ==
    IF Truthy(Get(item, s_connector)) THEN Get(item, s_connector)
    ELSE IF Truthy(Get(item, s_label)) THEN Get(item, s_label)
    ELSE IF Truthy(Get(item, s_name)) THEN Get(item, s_name)
    ELSE StrV(s_Unknown)

\* value.get("name") or value.get("officialName") or key
EntryLabel(key, value) ==
    IF Truthy(Get(value, s_name)) THEN Get(value, s_name)
    ELSE IF Truthy(Get(value, s_officialName)) THEN Get(value, s_officialName)
    ELSE StrV(key)

\* [key for key, value in d.items() if isinstance(value, (int, float)) and key != skip]
NumericKeys(d, skip) ==
    LET keep == {i \in 1..Len(d.ks) : IsNumber(d.vs[i]) /\ d.ks[i] # skip}
    IN  KeepAt(d.ks, keep)

\* a key that no document has: the "date" exclusion switched off
NoKey == <<"\n">>

StrList(keys) == ListV([i \in 1..Len(keys) |-> StrV(keys[i])])

AnalyzeArrayMetric(key, value, full_path) ==
    IF value.vs = <<>> THEN Ok(<<>>)
    ELSE
    LET first_item == value.vs[1]
        metric_name == IF full_path # <<>> THEN full_path ELSE key
    IN  IF IsDict(first_item) /\ HasKey(first_item, s_date) /\ HasKey(first_item, s_value)
        THEN IF ~AllDicts(Take(value.vs, 3)) THEN Raised("AttributeError")
             ELSE MetricInfo(metric_name, "timeSeries",
                             GenerateMetricDescription(key, "timeSeries"),
                             ListV(GetEach(Take(value.vs, 3), s_value)),
                             DetectValueType(key, Item(first_item, s_value)),
                             TRUE, <<>>)
        ELSE IF IsDict(first_item) THEN Ok(<<>>)
        ELSE MetricInfo(metric_name, "array",
                        GenerateMetricDescription(key, "array"),
                        ListV(Take(value.vs, 3)), "generic", FALSE, <<>>)

IsGroupedShape(value) ==
    /\ HasKey(value, s_dates) /\ HasKey(value, s_values)
    /\ IsList(Get(value, s_dates)) /\ IsList(Get(value, s_values))

AnalyzeObjectMetric(key, value, full_path) ==
    LET metric_name == IF full_path # <<>> THEN full_path ELSE key
    IN  IF ~IsGroupedShape(value) THEN Ok(<<>>)
        ELSE
        LET series == Item(value, s_values).vs
        IN  IF ~AllDicts(series) THEN Raised("AttributeError")
            ELSE
            LET grouping_dimensions == [i \in 1..Len(series) |-> GetOr(series[i], s_label, StrV(<<>>))]
                first_values == IF series = <<>> THEN ListV(<<>>)
                                ELSE GetOr(series[1], s_values, ListV(<<>>))
            IN  IF first_values.t \notin {"list", "str"} THEN Raised("TypeError")
                ELSE
                LET sample_values == IF IsList(first_values)
                                     THEN ListV(Take(first_values.vs, 3))
                                     ELSE StrV(Take(first_values.s, 3))
                    first_sample == IF ~Truthy(sample_values) THEN IntV(0)
                                    ELSE IF IsList(sample_values) THEN sample_values.vs[1]
                                    ELSE StrV(<<sample_values.s[1]>>)
                IN  MetricInfo(metric_name, "groupedSeries",
                               GenerateMetricDescription(key, "groupedSeries"),
                               sample_values, DetectValueType(key, first_sample),
                               TRUE, grouping_dimensions)

AnalyzeMetric(key, value, full_path) ==
    IF value.t = "null" THEN Ok(<<>>)
    ELSE IF IsNumber(value)
    THEN MetricInfo(IF full_path # <<>> THEN full_path ELSE key, "scalar",
                    GenerateMetricDescription(key, "scalar"), value,
                    DetectValueType(key, value), FALSE, <<>>)
    ELSE IF IsList(value) THEN AnalyzeArrayMetric(key, value, full_path)
    ELSE IF IsDict(value) THEN AnalyzeObjectMetric(key, value, full_path)
    ELSE Ok(<<>>)

\* the MetricInfo lists of a sequence of results, or the first exception among them
Chain(rs) ==
    IF \E i \in 1..Len(rs) : rs[i].exc # "none"
    THEN Raised(rs[CHOOSE i \in 1..Len(rs) :
                     rs[i].exc # "none" /\ \A j \in 1..(i - 1) : rs[j].exc = "none"].exc)
    ELSE Ok(Flatten([i \in 1..Len(rs) |-> rs[i].metrics]))

ExtractFromObjectArray(array, base_path) ==
    LET first_item == array[1]
        numeric_keys == NumericKeys(first_item, s_date)
    IN  IF numeric_keys = <<>> THEN Ok(<<>>)
        ELSE IF ~AllDicts(array) THEN Raised("AttributeError")
        ELSE
        LET grouping_dimensions == [i \in 1..Len(array) |-> ItemLabel(array[i])]
            container ==
                MetricInfo(base_path, "embeddedMetrics",
                           GenerateMetricDescription(base_path, "embeddedMetrics")
                             \o <<" ", "c", "o", "n", "t", "a", "i", "n", "i", "n", "g", " ">>
                             \o IntToStr(Len(numeric_keys))
                             \o <<" ", "m", "e", "t", "r", "i", "c", "s">>,
                           StrList(numeric_keys), "generic", FALSE, grouping_dimensions)
            field(key) ==
                MetricInfo(base_path \o <<".">> \o key, "groupedSeries",
                           GenerateMetricDescription(key, "groupedSeries")
                             \o <<" ", "f", "r", "o", "m", " ">> \o base_path,
                           ListV(GetEach(Take(array, 3), key)),
                           DetectValueType(key, Item(first_item, key)),
                           FALSE, grouping_dimensions)
        IN  Chain(<<container>> \o [i \in 1..Len(numeric_keys) |-> field(numeric_keys[i])])

\* the key test without its length condition
IdLikeKeyAnyLength(key) ==
    /\ \A i \in 1..Len(key) : key[i] = "-" \/ IsAlnumChar(key[i])
    /\ \E i \in 1..Len(key) : key[i] # "-"

\* len(key) > 20 and key.replace("-", "").isalnum()
IdLikeKey(key) ==
    /\ Len(key) > 20
    /\ \A i \in 1..Len(key) : key[i] = "-" \/ IsAlnumChar(key[i])
    /\ \E i \in 1..Len(key) : key[i] # "-"

IsDynamicKeyObject(value) ==
    IF ~IsDict(value) \/ value.ks = <<>> THEN FALSE
    ELSE
    LET has_id_like_keys == \A i \in 1..Len(value.ks) : IdLikeKey(value.ks[i])
        first_value == value.vs[1]
    IN  IF ~IsDict(first_value) THEN FALSE
        ELSE
        LET first_keys == {first_value.ks[i] : i \in 1..Len(first_value.ks)}
            all_similar_structure ==
                \A i \in 1..Len(value.vs) :
                    /\ IsDict(value.vs[i])
                    /\ {value.vs[i].ks[j] : j \in 1..Len(value.vs[i].ks)} = first_keys
        IN  has_id_like_keys /\ all_similar_structure

ExtractFromDynamicKeyObject(container_key, obj, base_path) ==
    IF obj.ks = <<>> THEN Ok(<<>>)
    ELSE
    LET first_value == obj.vs[1]
    IN  IF ~IsDict(first_value) THEN Ok(<<>>)
        ELSE
        LET numeric_keys == NumericKeys(first_value, NoKey)
        IN  IF numeric_keys = <<>> THEN Ok(<<>>)
            ELSE IF ~AllDicts(obj.vs) THEN Raised("AttributeError")
            ELSE
            LET grouping_dimensions ==
                    [i \in 1..Len(obj.ks) |-> EntryLabel(obj.ks[i], obj.vs[i])]
                container ==
                    MetricInfo(base_path, "dynamicKeyObject",
                               GenerateMetricDescription(container_key, "dynamicKeyObject")
                                 \o <<" ", "w", "i", "t", "h", " ">> \o IntToStr(Len(obj.ks))
                                 \o <<" ", "a", "c", "c", "o", "u", "n", "t", "s">>,
                               StrList(numeric_keys), "generic", FALSE, grouping_dimensions)
                field(key) ==
                    MetricInfo(base_path \o <<".">> \o key, "groupedSeries",
                               GenerateMetricDescription(key, "groupedSeries")
                                 \o <<" ", "a", "c", "r", "o", "s", "s", " ">> \o container_key,
                               ListV(GetEach(Take(obj.vs, 3), key)),
                               DetectValueType(key, Item(first_value, key)),
                               FALSE, grouping_dimensions)
            IN  Chain(<<container>> \o [i \in 1..Len(numeric_keys) |-> field(numeric_keys[i])])

max_depth == 10

max_path == 5

\* the recursion without the limit on the path
ShouldRecurseAnyDepth(value, path) ==
    /\ IsDict(value) /\ value.ks # <<>>
    /\ ~IsDynamicKeyObject(value)
    /\ ~IsGroupedShape(value)

ShouldRecurseInto(value, path) ==
    /\ IsDict(value) /\ value.ks # <<>>
    /\ ~IsDynamicKeyObject(value)
    /\ ~IsGroupedShape(value)
    /\ ~(Len(path) > max_path)

RECURSIVE ExtractMetricsRecursively(_, _, _)
ExtractMetricsRecursively(data, key_path, depth) ==
    IF depth > max_depth \/ ~Truthy(data) \/ ~IsDict(data) THEN Ok(<<>>)
    ELSE
    LET entry(i) ==
            LET key == data.ks[i]
                value == data.vs[i]
                full_path == Append(key_path, key)
                current_path == IF key_path # <<>> THEN JoinWith(full_path, <<".">>) ELSE key
            IN  Chain(<< AnalyzeMetric(key, value, current_path),
                         IF IsList(value) /\ value.vs # <<>> /\ IsDict(value.vs[1])
                         THEN ExtractFromObjectArray(value.vs, current_path)
                         ELSE Ok(<<>>),
                         IF IsDynamicKeyObject(value)
                         THEN ExtractFromDynamicKeyObject(key, value, current_path)
                         ELSE Ok(<<>>),
                         IF ShouldRecurseInto(value, full_path)
                         THEN ExtractMetricsRecursively(value, full_path, depth + 1)
                         ELSE Ok(<<>>) >>)
    IN  Chain([i \in 1..Len(data.ks) |-> entry(i)])

(***************************************************************************)
(* DataAnalysisService: chart suggestions.  A confidence is held in        *)
(* hundredths: 90 is 0.9.                                                  *)
(***************************************************************************)
ChartSuggestion(chartType, confidence, reasoning) ==
    [chartType |-> chartType, confidence |-> confidence, reasoning |-> reasoning]

\* sorted(xs, key=lambda x: x.confidence, reverse=True): a stable sort
RECURSIVE InsertByConfidence(_, _)
InsertByConfidence(sorted, x) ==
    IF sorted = <<>> THEN <<x>>
    ELSE IF sorted[1].confidence >= x.confidence
    THEN <<sorted[1]>> \o InsertByConfidence(Tail(sorted), x)
    ELSE <<x>> \o sorted

\* the suggestions left in the order the rules made them
Unsorted(xs) == xs

RECURSIVE SortedByConfidence(_)
SortedByConfidence(xs) ==
    IF xs = <<>> THEN <<>>
    ELSE InsertByConfidence(SortedByConfidence(SubSeq(xs, 1, Len(xs) - 1)), xs[Len(xs)])

heatmap_keywords ==
    << <<"c", "o", "r", "r", "e", "l", "a", "t", "i", "o", "n">>,
       <<"p", "a", "t", "t", "e", "r", "n">>,
       <<"i", "n", "t", "e", "n", "s", "i", "t", "y">>,
       <<"d", "e", "n", "s", "i", "t", "y">> >>

change_keywords == << <<"c", "h", "a", "n", "g", "e">>, <<"d", "e", "l", "t", "a">> >>

HasTimeSeries(metrics) ==
    \E i \in 1..Len(metrics) : metrics[i].isTimeGrouped /\ metrics[i].groupingFields = <<>>

HasGrouped(metrics) == \E i \in 1..Len(metrics) : metrics[i].groupingFields # <<>>

ScalarCount(metrics) == Cardinality({i \in 1..Len(metrics) : metrics[i].type = "scalar"})

HasEmbedded(metrics) ==
    \E i \in 1..Len(metrics) : metrics[i].type \in {"embeddedMetrics", "dynamicKeyObject"}

HasChange(metrics) ==
    \E i \in 1..Len(metrics) : AnyKeywordIn(change_keywords, Lower(metrics[i].name))

HasCorrelation(metrics) ==
    \E i \in 1..Len(metrics) :
        \/ metrics[i].groupingFields # <<>> /\ metrics[i].isTimeGrouped
        \/ metrics[i].type = "embeddedMetrics" /\ Len(metrics[i].groupingFields) > 3
        \/ AnyKeywordIn(heatmap_keywords, Lower(metrics[i].name))

GenerateChartSuggestions(metrics) ==
    LET line == IF HasTimeSeries(metrics)
                THEN <<ChartSuggestion("line", 90, "Perfect for showing trends over time")>>
                ELSE <<>>
        bar == IF ScalarCount(metrics) > 1
               THEN <<ChartSuggestion("bar", 80, "Great for comparing different metrics")>>
               ELSE <<>>
        stacked == IF HasGrouped(metrics)
                   THEN <<ChartSuggestion("stacked-bar", 85,
                                          "Shows composition and trends for grouped data")>>
                   ELSE <<>>
        entities == IF HasEmbedded(metrics)
                    THEN <<ChartSuggestion("bar", 75,
                             "Ideal for comparing metrics across different accounts or entities")>>
                    ELSE <<>>
        waterfall == IF HasChange(metrics)
                     THEN <<ChartSuggestion("waterfall", 70,
                                            "Excellent for showing cumulative changes")>>
                     ELSE <<>>
        heatmap == IF HasCorrelation(metrics)
                   THEN <<ChartSuggestion("heatmap", 65,
                     "Perfect for visualizing patterns and intensity across multiple dimensions")>>
                   ELSE <<>>
    IN  SortedByConfidence(line \o bar \o stacked \o entities \o waterfall \o heatmap)

\* DataAnalysis, or the exception analyze_data let through.  dataDescription and
\* dateRangeAvailable are texts derived from the same metrics and document; no
\* service reads them back, and they are left out.
AnalyzeData(data) ==
    LET extracted == ExtractMetricsRecursively(data, <<>>, 0)
    IN  IF extracted.exc # "none"
        THEN [exc |-> extracted.exc, availableMetrics |-> <<>>,
              suggestedChartTypes |-> <<>>, totalDataPoints |-> 0]
        ELSE [exc |-> "none", availableMetrics |-> extracted.metrics,
              suggestedChartTypes |-> GenerateChartSuggestions(extracted.metrics),
              totalDataPoints |-> Len(extracted.metrics)]

(***************************************************************************)
(* What Python does where the slicers reach into the document.  A step     *)
(* yields [exc, msg, val]: exc = "none" and its value, or the exception it *)
(* raises with str(exception).                                             *)
(***************************************************************************)
Ascii ==
    <<" ", "!", "\"", "#", "$", "%", "&", "'", "(", ")", "*", "+", ",", "-", ".", "/",
      "0", "1", "2", "3", "4", "5", "6", "7", "8", "9", ":", ";", "<", "=", ">", "?",
      "@", "A", "B", "C", "D", "E", "F", "G", "H", "I", "J", "K", "L", "M", "N", "O",
      "P", "Q", "R", "S", "T", "U", "V", "W", "X", "Y", "Z", "[", "\\", "]", "^", "_",
      "\t", "a", "b", "c", "d", "e", "f", "g", "h", "i", "j", "k", "l", "m", "n", "o",
      "p", "q", "r", "s", "t", "u", "v", "w", "x", "y", "z", "{", "|", "}", "~">>

\* ord(c), for the printable ASCII range (the table holds a tab at 96: a
\* backquote cannot be written in a string here)
Ord(c) == 31 + (CHOOSE i \in 1..Len(Ascii) : Ascii[i] = c)

\* a <= b on str: by code point, a prefix first
RECURSIVE StrLE(_, _)
StrLE(a, b) ==
    IF a = <<>> THEN TRUE
    ELSE IF b = <<>> THEN FALSE
    ELSE IF a[1] = b[1] THEN StrLE(Tail(a), Tail(b))
    ELSE Ord(a[1]) < Ord(b[1])

V(val) == [exc |-> "none", msg |-> <<>>, val |-> val]

Err(exc, msg) == [exc |-> exc, msg |-> msg, val |-> Null]

\* the first exception of a sequence of steps, in order; V(Null) when none raises
FirstError(steps) ==
    IF \E i \in 1..Len(steps) : steps[i].exc # "none"
    THEN steps[CHOOSE i \in 1..Len(steps) :
                 steps[i].exc # "none" /\ \A j \in 1..(i - 1) : steps[j].exc = "none"]
    ELSE V(Null)

\* type(v).__name__
PyTypeName(v) ==
    CASE v.t = "null" -> <<"N", "o", "n", "e", "T", "y", "p", "e">>
      [] v.t = "bool" -> <<"b", "o", "o", "l">>
      [] v.t = "int" -> <<"i", "n", "t">>
      [] v.t = "float" -> <<"f", "l", "o", "a", "t">>
      [] v.t = "str" -> <<"s", "t", "r">>
      [] v.t = "list" -> <<"l", "i", "s", "t">>
      [] v.t = "dict" -> <<"d", "i", "c", "t">>

\* AttributeError: 'int' object has no attribute 'get'
NoAttribute(v, attr) ==
    Err("AttributeError",
        <<"'">> \o PyTypeName(v)
        \o <<"'", " ", "o", "b", "j", "e", "c", "t", " ", "h", "a", "s", " ", "n", "o", " ",
          "a", "t", "t", "r", "i", "b", "u", "t", "e", " ", "'">>
        \o attr \o <<"'">>)

\* KeyError('value'), whose str() is the repr of the key
KeyErrorOf(key) == Err("KeyError", <<"'">> \o key \o <<"'">>)

\* for x in v
PyIter(v) ==
    CASE v.t = "list" -> V(v)
      [] v.t = "str" -> V(ListV([i \in 1..Len(v.s) |-> StrV(<<v.s[i]>>)]))
      [] v.t = "dict" -> V(ListV([i \in 1..Len(v.ks) |-> StrV(v.ks[i])]))
      [] OTHER -> Err("TypeError", <<"'">> \o PyTypeName(v)
                        \o <<"'", " ", "o", "b", "j", "e", "c", "t", " ", "i", "s", " ", "n", "o", "t", " ",
          "i", "t", "e", "r", "a", "b", "l", "e">>)

\* v[i] for the int i (counted from 1 here)
PyIndex(v, i) ==
    CASE v.t = "list" ->
           IF i <= Len(v.vs) THEN V(v.vs[i])
           ELSE Err("IndexError",
                    <<"l", "i", "s", "t", " ", "i", "n", "d", "e", "x", " ", "o", "u", "t", " ", "o",
          "f", " ", "r", "a", "n", "g", "e">>)
      [] v.t = "str" ->
           IF i <= Len(v.s) THEN V(StrV(<<v.s[i]>>))
           ELSE Err("IndexError",
                    <<"s", "t", "r", "i", "n", "g", " ", "i", "n", "d", "e", "x", " ", "o", "u", "t",
          " ", "o", "f", " ", "r", "a", "n", "g", "e">>)
      [] v.t = "dict" -> Err("KeyError", IntToStr(i - 1))
      [] OTHER -> Err("TypeError", <<"'">> \o PyTypeName(v)
                        \o <<"'", " ", "o", "b", "j", "e", "c", "t", " ", "i", "s", " ", "n", "o", "t", " ",
          "s", "u", "b", "s", "c", "r", "i", "p", "t", "a", "b", "l", "e">>)

\* v[key] for the str key
PySubscript(v, key) ==
    CASE v.t = "dict" -> IF HasKey(v, key) THEN V(Item(v, key)) ELSE KeyErrorOf(key)
      [] v.t = "str" ->
           Err("TypeError",
               <<"s", "t", "r", "i", "n", "g", " ", "i", "n", "d", "i", "c", "e", "s", " ", "m",
          "u", "s", "t", " ", "b", "e", " ", "i", "n", "t", "e", "g", "e", "r", "s", ",",
          " ", "n", "o", "t", " ", "'", "s", "t", "r", "'">>)
      [] v.t = "list" ->
           Err("TypeError",
               <<"l", "i", "s", "t", " ", "i", "n", "d", "i", "c", "e", "s", " ", "m", "u", "s",
          "t", " ", "b", "e", " ", "i", "n", "t", "e", "g", "e", "r", "s", " ", "o", "r",
          " ", "s", "l", "i", "c", "e", "s", ",", " ", "n", "o", "t", " ", "s", "t", "r">>)
      [] OTHER -> Err("TypeError", <<"'">> \o PyTypeName(v)
                        \o <<"'", " ", "o", "b", "j", "e", "c", "t", " ", "i", "s", " ", "n", "o", "t", " ",
          "s", "u", "b", "s", "c", "r", "i", "p", "t", "a", "b", "l", "e">>)

(***************************************************************************)
(* MetricsService: the slicing strategies.  A slice returns                *)
(* {"dates": [...], "values": [{"label": ..., "values": [...]}]} or        *)
(* raises; both are one record: exc = "none" for a normal return, cls the  *)
(* error class of section 7 where the exception was first raised, wrapped  *)
(* whether slice() rewrapped it.                                           *)
(***************************************************************************)
Returned(dates, values) ==
    [exc |-> "none", cls |-> "none", wrapped |-> FALSE, msg |-> <<>>,
     dates |-> dates, values |-> values]

Thrown(exc, cls, msg) ==
    [exc |-> exc, cls |-> cls, wrapped |-> FALSE, msg |-> msg,
     dates |-> <<>>, values |-> <<>>]

Series(label, values) == [label |-> label, values |-> values]

EmptySlice == Returned(<<>>, <<>>)

\* a step's exception, leaving the slicer
Escapes(step) == Thrown(step.exc, "Runtime", step.msg)

RECURSIVE Walk(_, _)
Walk(current, keys) ==
    IF keys = <<>> THEN current
    ELSE IF current.t = "null" \/ ~IsDict(current) \/ ~HasKey(current, keys[1]) THEN Null
    ELSE Walk(Item(current, keys[1]), Tail(keys))

GetNestedValue(obj, path) == Walk(obj, SplitOn(path, "."))

\* re.match(r'^\d{4}-\d{2}-\d{2}', s) on the first ten characters
DayPattern(s) ==
    /\ Len(s) = 10
    /\ \A i \in {1, 2, 3, 4, 6, 7, 9, 10} : IsDigit(s[i])
    /\ s[5] = "-" /\ s[8] = "-"

\* r'^\d{4}(-\d{2})?' to the end of s
YearOrMonthPattern(s) ==
    \/ Len(s) = 4 /\ \A i \in 1..4 : IsDigit(s[i])
    \/ Len(s) = 7 /\ (\A i \in {1, 2, 3, 4, 6, 7} : IsDigit(s[i])) /\ s[5] = "-"

\* r'^\d{4}-\d{2}-\d{2}T.*,\d{4}-\d{2}-\d{2}T.*' to the end of s
IsoHead(s) ==
    /\ Len(s) >= 11 /\ DayPattern(SubSeq(s, 1, 10)) /\ s[11] = "T"
    /\ \A i \in 1..Len(s) : s[i] # "\n"

CustomRangePattern(s) ==
    \E k \in 1..Len(s) :
        s[k] = "," /\ IsoHead(SubSeq(s, 1, k - 1)) /\ IsoHead(SubSeq(s, k + 1, Len(s)))

\* '$' also matches before one final newline
Chomp(s) == IF s # <<>> /\ s[Len(s)] = "\n" THEN SubSeq(s, 1, Len(s) - 1) ELSE s

MatchesDay(s) == DayPattern(s) \/ DayPattern(Chomp(s))

IsValidFormat(date_range) ==
    \/ YearOrMonthPattern(date_range) \/ YearOrMonthPattern(Chomp(date_range))
    \/ MatchesDay(date_range)
    \/ CustomRangePattern(date_range) \/ CustomRangePattern(Chomp(date_range))

\* the date test as an equality with the range
DateFilterExact(date_range, date) ==
    IF ~IsStr(date)
    THEN NoAttribute(date, <<"s", "t", "a", "r", "t", "s", "w", "i", "t", "h">>)
    ELSE V(BoolV(date.s = date_range))

\* The date test of the three filter loops on one date value: V(BoolV(kept)) or
\* the exception the test raises.
DateFilter(date_range, date) ==
    IF Contains(date_range, <<",">>)
    THEN LET halves == SplitOn(date_range, ",")
         IN  IF Len(halves) # 2
             THEN Err("ValueError",
                      <<"t", "o", "o", " ", "m", "a", "n", "y", " ", "v", "a", "l", "u", "e", "s", " ",
                        "t", "o", " ", "u", "n", "p", "a", "c", "k", " ", "(", "e", "x", "p", "e", "c",
                        "t", "e", "d", " ", "2", ")">>)
             ELSE IF ~IsStr(date) THEN NoAttribute(date, <<"s", "p", "l", "i", "t">>)
             ELSE LET start_date == SplitOn(halves[1], "T")[1]
                      end_date == SplitOn(halves[2], "T")[1]
                      item_date == SplitOn(date.s, "T")[1]
                  IN  V(BoolV(StrLE(start_date, item_date) /\ StrLE(item_date, end_date)))
    ELSE IF ~IsStr(date)
    THEN NoAttribute(date, <<"s", "t", "a", "r", "t", "s", "w", "i", "t", "h">>)
    ELSE IF MatchesDay(date_range) THEN V(BoolV(StartsWith(date.s, date_range)))
    ELSE IF Contains(date_range, <<"-">>) THEN V(BoolV(StartsWith(date.s, date_range)))
    ELSE V(BoolV(StartsWith(date.s, date_range)))

\* The filter loop over {date, value} records and the time-series result built
\* from the records it keeps.
TimeSeriesFormat(items, description, date_range) ==
    LET step(i) ==
            IF ~IsDict(items[i]) THEN NoAttribute(items[i], <<"g", "e", "t">>)
            ELSE IF ~Truthy(Get(items[i], s_date)) THEN V(BoolV(FALSE))
            ELSE DateFilter(date_range, Item(items[i], s_date))
        steps == [i \in 1..Len(items) |-> step(i)]
        failed == FirstError(steps)
    IN  IF failed.exc # "none" THEN Escapes(failed)
        ELSE
        LET filtered_data == KeepAt(items, {i \in 1..Len(items) : Truthy(steps[i].val)})
        IN  IF \E i \in 1..Len(filtered_data) : ~HasKey(filtered_data[i], s_value)
            THEN Escapes(KeyErrorOf(s_value))
            ELSE Returned([i \in 1..Len(filtered_data) |-> Item(filtered_data[i], s_date)],
                          << Series(StrV(description),
                                    [i \in 1..Len(filtered_data) |->
                                        Item(filtered_data[i], s_value)]) >>)

SliceTimeSeries(data, metric_info, date_range) ==
    LET raw_data == GetNestedValue(data, metric_info.name)
    IN  IF ~Truthy(raw_data) \/ ~IsList(raw_data) THEN EmptySlice
        ELSE TimeSeriesFormat(raw_data.vs, metric_info.description, date_range)

\* [item.get("connector") or ... for item in items]
ItemLabels(items) ==
    IF ~AllDicts(items)
    THEN NoAttribute(items[CHOOSE i \in 1..Len(items) :
                             ~IsDict(items[i]) /\ \A j \in 1..(i - 1) : IsDict(items[j])],
                     <<"g", "e", "t">>)
    ELSE V(ListV([i \in 1..Len(items) |-> ItemLabel(items[i])]))

SliceNestedGroupedSeries(data, metric_info, date_range) ==
    LET path_parts == SplitOn(metric_info.name, ".")
        container_path == JoinWith(SubSeq(path_parts, 1, Len(path_parts) - 1), <<".">>)
        metric_key == path_parts[Len(path_parts)]
        container_data == GetNestedValue(data, container_path)
    IN  IF ~IsList(container_data) THEN EmptySlice
        ELSE IF metric_key = s_value /\ container_data.vs # <<>> /\ ~IsDict(container_data.vs[1])
        THEN Escapes(NoAttribute(container_data.vs[1], <<"g", "e", "t">>))
        ELSE IF /\ metric_key = s_value /\ container_data.vs # <<>>
                /\ Truthy(Get(container_data.vs[1], s_date))
                /\ HasKey(container_data.vs[1], s_value)
        THEN TimeSeriesFormat(container_data.vs, metric_info.description, date_range)
        ELSE
        LET categories == ItemLabels(container_data.vs)
        IN  IF categories.exc # "none" THEN Escapes(categories)
            ELSE Returned(categories.val.vs,
                          << Series(StrV(metric_info.description),
                                    [i \in 1..Len(container_data.vs) |->
                                        GetOr(container_data.vs[i], metric_key, IntV(0))]) >>)

\* the entry with all of its values, whatever the positions kept
ProjectSeriesWhole(series, filtered_indices) ==
    LET label == PySubscript(series, s_label)
        held == PySubscript(series, s_values)
        failed == FirstError(<<label, held>>)
    IN  IF failed.exc # "none" THEN failed
        ELSE IF ~IsList(held.val) THEN PyIndex(held.val, 1)
        ELSE V(DictV(<<s_label, s_values>>, <<label.val, held.val>>))

\* one entry of the "values" of a {dates, values} mapping, projected to the
\* positions kept: {"label": series["label"], "values": [series["values"][i] ...]}
ProjectSeries(series, filtered_indices) ==
    LET label == PySubscript(series, s_label)
        picks == [k \in 1..Len(filtered_indices) |->
                    LET held == PySubscript(series, s_values)
                    IN  IF held.exc # "none" THEN held
                        ELSE PyIndex(held.val, filtered_indices[k])]
        failed == FirstError(<<label>> \o picks)
    IN  IF failed.exc # "none" THEN failed
        ELSE V(DictV(<<s_label, s_values>>,
                     <<label.val, ListV([k \in 1..Len(picks) |-> picks[k].val])>>))

SliceGroupedSeries(data, metric_info, date_range) ==
    IF Contains(metric_info.name, <<".">>)
    THEN SliceNestedGroupedSeries(data, metric_info, date_range)
    ELSE
    LET raw_data == GetNestedValue(data, metric_info.name)
    IN  IF ~Truthy(raw_data) THEN EmptySlice
        ELSE IF ~IsDict(raw_data) THEN Escapes(NoAttribute(raw_data, <<"g", "e", "t">>))
        ELSE IF ~Truthy(Get(raw_data, s_dates)) \/ ~Truthy(Get(raw_data, s_values))
        THEN EmptySlice
        ELSE
        LET dates == Item(raw_data, s_dates)
            values == Item(raw_data, s_values)
            each_date == PyIter(dates)
        IN  IF each_date.exc # "none" THEN Escapes(each_date)
            ELSE
            LET steps == [i \in 1..Len(each_date.val.vs) |->
                            DateFilter(date_range, each_date.val.vs[i])]
                failed == FirstError(steps)
            IN  IF failed.exc # "none" THEN Escapes(failed)
                ELSE
                LET filtered_indices ==
                        Ascending({i \in 1..Len(steps) : Truthy(steps[i].val)})
                    kept_dates == [k \in 1..Len(filtered_indices) |->
                                     PyIndex(dates, filtered_indices[k])]
                    each_series == PyIter(values)
                    projected == IF each_series.exc # "none" THEN <<each_series>>
                                 ELSE [j \in 1..Len(each_series.val.vs) |->
                                         ProjectSeries(each_series.val.vs[j], filtered_indices)]
                    broken == FirstError(kept_dates \o projected)
                IN  IF broken.exc # "none" THEN Escapes(broken)
                    ELSE Returned([k \in 1..Len(kept_dates) |-> kept_dates[k].val],
                                  [j \in 1..Len(projected) |->
                                     Series(Item(projected[j].val, s_label),
                                            Item(projected[j].val, s_values).vs)])

SliceScalar(data, metric_info) ==
    Returned(<<StrV(<<"T", "o", "t", "a", "l">>)>>,
             << Series(StrV(metric_info.description),
                       <<GetNestedValue(data, metric_info.name)>>) >>)

\* [value.get("name") or value.get("officialName") or key for key, value in entries]
EntryLabels(raw_data) ==
    IF ~AllDicts(raw_data.vs)
    THEN NoAttribute(raw_data.vs[CHOOSE i \in 1..Len(raw_data.vs) :
                                   /\ ~IsDict(raw_data.vs[i])
                                   /\ \A j \in 1..(i - 1) : IsDict(raw_data.vs[j])],
                     <<"g", "e", "t">>)
    ELSE V(ListV([i \in 1..Len(raw_data.ks) |-> EntryLabel(raw_data.ks[i], raw_data.vs[i])]))

SliceDynamicKeyObject(data, metric_info) ==
    LET raw_data == GetNestedValue(data, metric_info.name)
    IN  IF ~Truthy(raw_data) \/ ~IsDict(raw_data) THEN EmptySlice
        ELSE
        LET categories == EntryLabels(raw_data)
            path_parts == SplitOn(metric_info.name, ".")
        IN  IF categories.exc # "none" THEN Escapes(categories)
            ELSE IF ~Contains(metric_info.name, <<".">>) \/ Len(path_parts) = 1
            THEN LET numeric_keys == NumericKeys(raw_data.vs[1], NoKey)
                 IN  IF numeric_keys = <<>> \/ numeric_keys[1] = <<>> THEN EmptySlice
                     ELSE Returned(categories.val.vs,
                                   << Series(StrV(numeric_keys[1]
                                               \o <<" ", "b", "y", " ", "a", "c", "c", "o", "u", "n", "t">>),
                                             [i \in 1..Len(raw_data.vs) |->
                                                GetOr(raw_data.vs[i], numeric_keys[1],
                                                      IntV(0))]) >>)
            ELSE Returned(categories.val.vs,
                          << Series(StrV(metric_info.description),
                                    [i \in 1..Len(raw_data.vs) |->
                                       GetOr(raw_data.vs[i], path_parts[Len(path_parts)],
                                             IntV(0))]) >>)

SliceEmbeddedMetrics(data, metric_info) ==
    LET raw_data == GetNestedValue(data, metric_info.name)
    IN  IF ~IsList(raw_data) \/ ~Truthy(raw_data) THEN EmptySlice
        ELSE
        LET categories == ItemLabels(raw_data.vs)
        IN  IF categories.exc # "none" THEN Escapes(categories)
            ELSE
            LET numeric_keys == NumericKeys(raw_data.vs[1], s_date)
            IN  IF numeric_keys = <<>> THEN EmptySlice
                ELSE Returned(categories.val.vs,
                              [k \in 1..Len(numeric_keys) |->
                                 Series(StrV(numeric_keys[k]),
                                        [i \in 1..Len(raw_data.vs) |->
                                           GetOr(raw_data.vs[i], numeric_keys[k], IntV(0))])])

SliceArray(data, metric_info) ==
    LET raw_data == GetNestedValue(data, metric_info.name)
    IN  IF ~IsList(raw_data) \/ ~Truthy(raw_data) THEN EmptySlice
        ELSE Returned([i \in 1..Len(raw_data.vs) |->
                         StrV(<<"I", "t", "e", "m", " ">> \o IntToStr(i))],
                      << Series(StrV(metric_info.description),
                                [i \in 1..Len(raw_data.vs) |->
                                   IF IsNumber(raw_data.vs[i]) THEN raw_data.vs[i]
                                   ELSE IntV(0)]) >>)

(***************************************************************************)
(* MetricsService.slice, from the document and the analysis it works on    *)
(***************************************************************************)
\* self.data_analysis before any load has stored one
NoAnalysis ==
    [exc |-> "unset", availableMetrics |-> <<>>, suggestedChartTypes |-> <<>>,
     totalDataPoints |-> 0]

Whitespace == {" ", "\t", "\n", "\r", "\f"}

\* not text or text.strip() == ""
IsBlank(text) == \A i \in 1..Len(text) : text[i] \in Whitespace

\* next((m for m in metrics if m.name.lower() == metric.lower()), None), as a
\* position of metrics, 0 for None
ExactMatch(metrics, metric) ==
    LET hits == {i \in 1..Len(metrics) : Lower(metrics[i].name) = Lower(metric)}
    IN  IF hits = {} THEN 0 ELSE CHOOSE i \in hits : \A j \in hits : i <= j

\* next((m for m in metrics if metric.lower() in m.name.lower()
\*                          or m.name.lower() in metric.lower()), None)
PartialMatch(metrics, metric) ==
    LET hits == {i \in 1..Len(metrics) :
                    \/ Contains(Lower(metrics[i].name), Lower(metric))
                    \/ Contains(Lower(metric), Lower(metrics[i].name))}
    IN  IF hits = {} THEN 0 ELSE CHOOSE i \in hits : \A j \in hits : i <= j

\* the search with the names of the catalog left in their own case
FindMetricCaseSensitive(metrics, metric) ==
    LET hits == {i \in 1..Len(metrics) :
                    \/ metrics[i].name = Lower(metric)
                    \/ Contains(metrics[i].name, Lower(metric))}
    IN  IF hits = {} THEN 0 ELSE CHOOSE i \in hits : \A j \in hits : i <= j

\* the search with the substring match tried before the exact one
FindMetricPartialFirst(metrics, metric) ==
    IF PartialMatch(metrics, metric) # 0 THEN PartialMatch(metrics, metric)
    ELSE ExactMatch(metrics, metric)

FindMetric(metrics, metric) ==
    IF ExactMatch(metrics, metric) # 0 THEN ExactMatch(metrics, metric)
    ELSE PartialMatch(metrics, metric)

MetricNotFoundMessage(metrics, metric) ==
    <<"M", "e", "t", "r", "i", "c", " ", "\"">> \o metric
    \o <<"\"", " ", "n", "o", "t", " ", "f", "o", "u", "n", "d", " ", "i", "n", " ", "d",
          "a", "t", "a", "s", "e", "t", ".", " ", "A", "v", "a", "i", "l", "a", "b", "l",
          "e", " ", "m", "e", "t", "r", "i", "c", "s", ":", " ">>
    \o JoinWith([i \in 1..Len(metrics) |-> metrics[i].name], <<",", " ">>)

Dispatch(data, metric_info, date_range) ==
    CASE metric_info.type = "timeSeries" -> SliceTimeSeries(data, metric_info, date_range)
      [] metric_info.type = "groupedSeries" -> SliceGroupedSeries(data, metric_info, date_range)
      [] metric_info.type = "scalar" -> SliceScalar(data, metric_info)
      [] metric_info.type = "dynamicKeyObject" -> SliceDynamicKeyObject(data, metric_info)
      [] metric_info.type = "embeddedMetrics" -> SliceEmbeddedMetrics(data, metric_info)
      [] metric_info.type = "array" -> SliceArray(data, metric_info)
      [] OTHER -> Thrown("Exception", "UnsupportedMetricType",
                         <<"U", "n", "s", "u", "p", "p", "o", "r", "t", "e", "d", " ", "m", "e", "t", "r",
                           "i", "c", " ", "t", "y", "p", "e", ":", " ">>)

\* The body of the try block after load() has returned data, with data_analysis
\* what self.data_analysis holds then.  date_range = <<>> stands for None and "".
SliceBody(data, data_analysis_now, metric, date_range, group_by) ==
    IF metric = <<>> \/ IsBlank(metric)
    THEN Thrown("Exception", "InvalidMetricName",
                <<"M", "e", "t", "r", "i", "c", " ", "n", "a", "m", "e", " ", "i", "s", " ", "r",
                  "e", "q", "u", "i", "r", "e", "d">>)
    ELSE IF date_range = <<>> \/ IsBlank(date_range)
    THEN Thrown("Exception", "InvalidDateRange",
                <<"D", "a", "t", "e", " ", "r", "a", "n", "g", "e", " ", "i", "s", " ", "r", "e",
                  "q", "u", "i", "r", "e", "d">>)
    ELSE IF ~IsValidFormat(date_range)
    THEN Thrown("Exception", "InvalidDateRange",
                <<"D", "a", "t", "e", " ", "r", "a", "n", "g", "e", " ", "m", "u", "s", "t", " ",
                  "b", "e", " ", "i", "n", " ", "Y", "Y", "Y", "Y", ",", " ", "Y", "Y", "Y", "Y",
                  "-", "M", "M", ",", " ", "Y", "Y", "Y", "Y", "-", "M", "M", "-", "D", "D", ",",
                  " ", "o", "r", " ", "c", "u", "s", "t", "o", "m", " ", "r", "a", "n", "g", "e",
                  " ", "f", "o", "r", "m", "a", "t">>)
    ELSE IF data_analysis_now.exc = "unset"
    THEN Escapes(NoAttribute(Null, <<"a", "v", "a", "i", "l", "a", "b", "l", "e", "M", "e", "t", "r", "i", "c", "s">>))
    ELSE
    LET metrics == data_analysis_now.availableMetrics
        found == FindMetric(metrics, metric)
    IN  IF found = 0
        THEN Thrown("Exception", "MetricNotFound", MetricNotFoundMessage(metrics, metric))
        ELSE Dispatch(data, metrics[found], date_range)

error_keywords ==
    << <<"n", "o", "t", " ", "f", "o", "u", "n", "d">>,
       <<"r", "e", "q", "u", "i", "r", "e", "d">>,
       <<"f", "o", "r", "m", "a", "t">> >>

\* the except block that raises every error inside "Failed to process metric"
BoundaryWrapsAll(outcome, metric) ==
    IF outcome.exc = "none" THEN outcome
    ELSE [outcome EXCEPT
            !.exc = "Exception", !.wrapped = TRUE,
            !.msg = <<"F", "a", "i", "l", "e", "d", " ", "t", "o", " ", "p", "r", "o", "c", "e", "s",
                      "s", " ", "m", "e", "t", "r", "i", "c", " ", "\"">>
                    \o metric \o <<"\"", ":", " ">> \o outcome.msg]

\* The except block of slice: an error whose message holds one of the keywords
\* is raised again as it is, any other one inside "Failed to process metric".
Boundary(outcome, metric) ==
    IF outcome.exc = "none" THEN outcome
    ELSE IF AnyKeywordIn(error_keywords, outcome.msg) THEN outcome
    ELSE [outcome EXCEPT
            !.exc = "Exception", !.wrapped = TRUE,
            !.msg = <<"F", "a", "i", "l", "e", "d", " ", "t", "o", " ", "p", "r", "o", "c", "e", "s",
                      "s", " ", "m", "e", "t", "r", "i", "c", " ", "\"">>
                    \o metric \o <<"\"", ":", " ">> \o outcome.msg]

\* slice() where a grouping dimension empties the result
SliceCoreGrouping(data, data_analysis_now, metric, date_range, group_by) ==
    IF group_by # <<>> THEN EmptySlice
    ELSE Boundary(SliceBody(data, data_analysis_now, metric, date_range, group_by), metric)

SliceCore(data, data_analysis_now, metric, date_range, group_by) ==
    Boundary(SliceBody(data, data_analysis_now, metric, date_range, group_by), metric)

(***************************************************************************)
(* The documents, metric names and date ranges the engine is checked on    *)
(***************************************************************************)
\* the longest list of records, dates or series a generated document holds
MaxItems == 2

\* the most series a generated {dates, values} mapping holds
MaxSeries == 2

\* the most entries a generated dynamic-key mapping holds
MaxEntries == 2

k_revenue == <<"r", "e", "v", "e", "n", "u", "e">>

k_byChannel == <<"b", "y", "C", "h", "a", "n", "n", "e", "l">>

k_sales == <<"s", "a", "l", "e", "s">>

k_netTotal == <<"n", "e", "t", ".", "t", "o", "t", "a", "l">>

k_net == <<"n", "e", "t">>

k_total == <<"t", "o", "t", "a", "l">>

k_Revenue == <<"R", "e", "v", "e", "n", "u", "e">>

k_accounts == <<"a", "c", "c", "o", "u", "n", "t", "s">>

k_balance == <<"b", "a", "l", "a", "n", "c", "e">>

id_stem == <<"a", "c", "c", "t", "-", "0", "0", "0", "0", "-", "0", "0", "0", "0", "-", "0",
      "0", "0", "0", "-">>

AccountId(i) == id_stem \o IntToStr(i)

day_1 == <<"2", "0", "2", "5", "-", "0", "1", "-", "1", "5">>

day_2 == <<"2", "0", "2", "5", "-", "0", "2", "-", "0", "1">>

stamp_1 == <<"2", "0", "2", "5", "-", "0", "1", "-", "3", "1", "T", "2", "3", ":", "0", "0",
      ":", "0", "0", "Z">>

r_year == <<"2", "0", "2", "5">>

r_month == <<"2", "0", "2", "5", "-", "0", "1">>

r_day == <<"2", "0", "2", "5", "-", "0", "1", "-", "1", "5">>

r_custom == <<"2", "0", "2", "5", "-", "0", "1", "-", "0", "1", "T", "0", "0", ":", "0", "0",
      ":", "0", "0", ".", "0", "0", "0", "Z", ",", "2", "0", "2", "5", "-", "0", "1",
      "-", "3", "1", "T", "2", "3", ":", "5", "9", ":", "5", "9", ".", "9", "9", "9",
      "Z">>

r_dateOnlyPair == <<"2", "0", "2", "5", "-", "0", "1", "-", "0", "1", ",", "2", "0", "2", "5", "-",
      "0", "1", "-", "3", "1">>

r_word == <<"J", "a", "n">>

SeqsUpTo(S, n) == UNION {[1..k -> S] : k \in 0..n}

Rec(ks, vs) == DictV(ks, vs)

\* what a list under a key may hold: {date, value} records (one with an empty
\* date, one without a date, one without a value, one with a number for a date,
\* one with a timestamp), category rows (one with an empty connector, one without
\* its numeric field) and values that are no mapping
Records ==
    { Rec(<<s_date, s_value>>, <<StrV(day_1), IntV(100)>>),
      Rec(<<s_date, s_value>>, <<StrV(day_2), IntV(200)>>),
      Rec(<<s_date, s_value>>, <<StrV(stamp_1), FltV(15)>>),
      Rec(<<s_date, s_value>>, <<StrV(<<>>), IntV(5)>>),
      Rec(<<s_value>>, <<IntV(7)>>),
      Rec(<<s_date>>, <<StrV(day_1)>>),
      Rec(<<s_date, s_value>>, <<IntV(20250115), IntV(1)>>) }

Rows ==
    { Rec(<<s_connector, k_sales>>, <<StrV(<<"A">>), IntV(10)>>),
      Rec(<<s_connector, k_sales>>, <<StrV(<<"B">>), IntV(20)>>),
      Rec(<<s_connector, s_label, k_sales>>, <<StrV(<<>>), StrV(<<"L">>), IntV(30)>>),
      Rec(<<s_name, k_total>>, <<StrV(<<"N">>), BoolV(TRUE)>>),
      Rec(<<s_connector>>, <<StrV(<<"C">>)>>),
      Rec(<<s_date, k_sales>>, <<IntV(3), Null>>) }

Scalars == {Null, IntV(0), IntV(7), FltV(25), StrV(<<"x">>)}

Lists == {ListV(items) : items \in SeqsUpTo(Records \cup Rows \cup {IntV(7)}, MaxItems)}

\* the entries of the "values" of a {dates, values} mapping: full, short, without
\* a label, with a null label, with no values, and no mapping at all
SeriesEntries ==
    { Rec(<<s_label, s_values>>, <<StrV(<<"A">>), ListV(<<IntV(1), IntV(2)>>)>>),
      Rec(<<s_label, s_values>>, <<StrV(<<"B">>), ListV(<<IntV(3)>>)>>),
      Rec(<<s_values>>, <<ListV(<<IntV(4), IntV(5)>>)>>),
      Rec(<<s_label, s_values>>, <<Null, ListV(<<IntV(6), IntV(7)>>)>>),
      IntV(9) }

DateEntries == {StrV(day_1), StrV(day_2)}

Grouped ==
    { Rec(<<s_dates, s_values>>, <<ListV(ds), ListV(ss)>>) :
        ds \in SeqsUpTo(DateEntries, MaxItems), ss \in SeqsUpTo(SeriesEntries, MaxSeries) }
    \cup { Rec(<<s_dates, s_values>>, <<ListV(<<IntV(5)>>), ListV(<<>>)>>),
           Rec(<<s_dates, s_values>>,
               <<ListV(<<StrV(stamp_1)>>), ListV(<<Rec(<<s_label>>, <<StrV(<<"D">>)>>)>>)>>),
           Rec(<<s_dates, s_values>>, <<StrV(day_1), ListV(<<>>)>>) }

\* the entries of a mapping keyed by account ids
Entries ==
    { Rec(<<s_name, k_balance>>, <<StrV(<<"N">>), IntV(5)>>),
      Rec(<<s_name, k_balance>>, <<StrV(<<>>), FltV(25)>>),
      Rec(<<s_officialName, k_balance>>, <<StrV(<<"O">>), IntV(0)>>),
      Rec(<<s_name>>, <<StrV(<<"M">>)>>) }

Keyed ==
    { DictV([i \in 1..Len(es) |-> AccountId(i)], es) : es \in SeqsUpTo(Entries, MaxEntries) }
    \cup { DictV(<<k_sales, AccountId(2)>>, <<e, e>>) : e \in Entries }

Values == Scalars \cup Lists \cup Grouped \cup Keyed

\* values for the documents of two keys and for the nested ones
FewValues ==
    { IntV(7), Null,
      ListV(<<Rec(<<s_date, s_value>>, <<StrV(day_1), IntV(100)>>)>>),
      ListV(<<Rec(<<s_connector, k_total>>, <<StrV(<<"A">>), IntV(10)>>)>>),
      ListV(<<IntV(7)>>),
      Rec(<<s_dates, s_values>>,
          <<ListV(<<StrV(day_1)>>),
            ListV(<<Rec(<<s_label, s_values>>, <<StrV(<<"A">>), ListV(<<IntV(1)>>)>>)>>)>>),
      DictV(<<AccountId(1)>>, <<Rec(<<s_name, k_total>>, <<StrV(<<"N">>), IntV(5)>>)>>),
      DictV(<<k_total>>, <<IntV(3)>>) }

KeyPairs ==
    { <<k_revenue, k_Revenue>>, <<k_netTotal, k_net>>, <<k_net, k_netTotal>>,
      <<k_byChannel, k_sales>> }

Documents ==
    { DictV(<<k_revenue>>, <<v>>) : v \in Values }
    \cup { DictV(<<k_byChannel>>, <<v>>) : v \in FewValues }
    \cup { DictV(pair, <<v, w>>) : pair \in KeyPairs, v \in FewValues, w \in FewValues }
    \cup { DictV(<<k_net>>, <<DictV(<<k>>, <<v>>)>>) : k \in {k_total, k_revenue}, v \in FewValues }
    \cup { Null, ListV(<<IntV(7)>>), DictV(<<>>, <<>>) }

DateRanges == {r_year, r_month, r_day, r_custom, r_dateOnlyPair, r_word, <<>>}

ProbeNames == {<<>>, <<" ">>, s_value, k_Revenue, k_total, <<"z", "z">>}

\* the group_by arguments; <<>> is None
GroupBys == {<<>>, s_connector}

(***************************************************************************)
(* The engine on one document: the analysis load() stores for it, then     *)
(* slice() calls against the document and that analysis                    *)
(***************************************************************************)
NoRequest == [made |-> FALSE, metric |-> <<>>, date_range |-> <<>>, group_by |-> <<>>]

NoResult == Thrown("unset", "none", <<>>)

NoCache == <<>>

NoTasks == <<>>

EngineIdle ==
    doc = Null /\ analysis = NoAnalysis /\ request = NoRequest /\ result = NoResult

TypeIdle == classified_key = <<>> /\ classified_sample = Null /\ value_type = "unset"

NoSuggestions == [made |-> FALSE, list |-> <<>>]

RankIdle == catalog = <<>> /\ suggestions = NoSuggestions

NoCall == <<>>

CallIdle == arguments = NoCall /\ returned = NoCall

MetricNames(a) == {a.availableMetrics[i].name : i \in 1..Len(a.availableMetrics)}

InitEngine ==
    /\ doc \in Documents
    /\ analysis = NoAnalysis
    /\ request = NoRequest
    /\ result = NoResult
    /\ cache = NoCache /\ data_analysis = NoAnalysis /\ tasks = NoTasks
    /\ TypeIdle /\ RankIdle /\ CallIdle

\* load(): self.data_analysis = self.data_analysis_service.analyze_data(data)
Analyze ==
    /\ analysis = NoAnalysis
    /\ analysis' = AnalyzeData(doc)
    /\ UNCHANGED <<doc, request, result>>
    /\ UNCHANGED <<serviceVars, typeVars, rankVars, callVars>>

\* slice(metric, date_range, group_by) once load() has returned.  A call reads
\* the document and the analysis and writes neither, so the calls of one
\* behaviour reach the states its first call reaches: a behaviour makes one.
Slice(metric, date_range, group_by) ==
    /\ analysis.exc = "none"
    /\ ~request.made
    /\ request' = [made |-> TRUE, metric |-> metric, date_range |-> date_range,
                   group_by |-> group_by]
    /\ result' = SliceCore(doc, analysis, metric, date_range, group_by)
    /\ UNCHANGED <<doc, analysis>>
    /\ UNCHANGED <<serviceVars, typeVars, rankVars, callVars>>

NextEngine ==
    \/ Analyze
    \/ \E metric \in MetricNames(analysis) \cup ProbeNames, date_range \in DateRanges,
          group_by \in GroupBys :
            Slice(metric, date_range, group_by)

SpecEngine == InitEngine /\ [][NextEngine]_vars

(***************************************************************************)
(* MetricsService as the event loop runs it.  A call runs without          *)
(* interruption up to the one await that suspends it, the upstream fetch   *)
(* of load(), and from the fetch's answer to its end.                      *)
(***************************************************************************)
\* the calls that may be in flight together
MaxTasks == 2

default_key == <<"d", "e", "f", "a", "u", "l", "t">>

load_failed == <<"F", "a", "i", "l", "e", "d", " ", "t", "o", " ", "l", "o", "a", "d", " ", "m",
      "e", "t", "r", "i", "c", "s", " ", "d", "a", "t", "a", " ", "f", "r", "o", "m",
      " ", "I", "r", "i", "s", " ", "F", "i", "n", "a", "n", "c", "e", " ", "A", "P",
      "I">>

Tasks == 1..MaxTasks

\* the date_range arguments of the calls; <<>> is None
CallRanges == {<<>>, r_month}

\* cache_key = date_range or "default"
CacheKey(date_range) == IF date_range = <<>> THEN default_key ELSE date_range

CacheKeys == {CacheKey(r) : r \in CallRanges}

Absent == [t |-> "absent", n |-> 0, s |-> <<>>, ks |-> <<>>, vs |-> <<>>]

\* the documents the upstream API may answer with: {date, value} records, category
\* rows, and a {dates, values} mapping that analyze_data raises on
UpstreamDocuments ==
    { DictV(<<k_revenue>>,
            <<ListV(<<Rec(<<s_date, s_value>>, <<StrV(day_1), IntV(100)>>)>>)>>),
      DictV(<<k_byChannel>>,
            <<ListV(<<Rec(<<s_connector, k_sales>>, <<StrV(<<"A">>), IntV(10)>>)>>)>>),
      DictV(<<k_revenue>>,
            <<Rec(<<s_dates, s_values>>, <<ListV(<<StrV(day_1)>>), ListV(<<IntV(9)>>)>>)>>) }

CallMetrics == {k_revenue}

token_required == <<"I", "R", "I", "S", "_", "A", "P", "I", "_", "T", "O", "K", "E", "N", " ", "e", "n", "v", "i", "r", "o", "n", "m", "e", "n", "t", " ", "v", "a", "r", "i", "a", "b", "l", "e", " ", "i", "s", " ", "r", "e", "q", "u", "i", "r", "e", "d">>

fetch_failed == <<"F", "a", "i", "l", "e", "d", " ", "t", "o", " ", "f", "e", "t", "c", "h", " ", "d", "a", "t", "a", " ", "f", "r", "o", "m", " ", "I", "r", "i", "s", " ", "F", "i", "n", "a", "n", "c", "e", " ", "A", "P", "I", ":", " ", "H", "T", "T", "P", " ", "5", "0", "0">>

\* what fetch_metrics raises: no API token, or a failed request
UpstreamErrors == {token_required, fetch_failed}

Operations == {"load", "get_data_analysis", "slice"}

IdleTask ==
    [op |-> "none", pc |-> "idle", date_range |-> <<>>, metric |-> <<>>,
     data |-> Absent, used |-> NoAnalysis, raised |-> <<>>, outcome |-> NoResult]

LoadFailed == Thrown("Exception", "LoadFailed", load_failed)

\* What is left of a call once load() has returned data to it.
Finish(task, data, data_analysis_now) ==
    [task EXCEPT
        !.pc = "done", !.data = data,
        !.used = IF task.op = "load" THEN NoAnalysis ELSE data_analysis_now,
        !.outcome = IF task.op = "slice"
                    THEN SliceCore(data, data_analysis_now, task.metric, task.date_range, <<>>)
                    ELSE EmptySlice]

\* What is left of a call once load() has raised: slice's except block rewraps.
Fail(task) ==
    [task EXCEPT
        !.pc = "done",
        !.outcome = IF task.op = "slice" THEN Boundary(LoadFailed, task.metric)
                    ELSE LoadFailed]

Init ==
    /\ cache = [k \in CacheKeys |-> Absent]
    /\ data_analysis = NoAnalysis
    /\ tasks = [t \in Tasks |-> IdleTask]
    /\ EngineIdle /\ TypeIdle /\ RankIdle /\ CallIdle

\* a call, up to its end (the key is cached) or up to the await of the fetch
Call(t, op, date_range, metric) ==
    LET started == [IdleTask EXCEPT !.op = op, !.date_range = date_range, !.metric = metric]
        cache_key == CacheKey(date_range)
    IN  /\ tasks[t].pc = "idle"
        /\ tasks' = [tasks EXCEPT ![t] =
                        IF cache[cache_key] # Absent
                        THEN Finish(started, cache[cache_key], data_analysis)
                        ELSE [started EXCEPT !.pc = "fetching"]]
        /\ UNCHANGED <<cache, data_analysis>>
        /\ UNCHANGED <<engineVars, typeVars, rankVars, callVars>>

\* fetch_metrics returns data: load() stores it, then analyses it
FetchReturns(t, data) ==
    LET analysed == AnalyzeData(data)
        cache_key == CacheKey(tasks[t].date_range)
    IN  /\ tasks[t].pc = "fetching"
        /\ cache' = [cache EXCEPT ![cache_key] = data]
        /\ data_analysis' = IF analysed.exc = "none" THEN analysed ELSE data_analysis
        /\ tasks' = [tasks EXCEPT ![t] =
                        IF analysed.exc = "none" THEN Finish(tasks[t], data, analysed)
                        ELSE Fail(tasks[t])]
        /\ UNCHANGED <<engineVars, typeVars, rankVars, callVars>>

\* fetch_metrics raises error (raised is the message of the exception load()
\* catches); a missing token raises at once, which is one of the schedules here
FetchRaises(t, error) ==
    /\ tasks[t].pc = "fetching"
    /\ tasks' = [tasks EXCEPT ![t] = [Fail(tasks[t]) EXCEPT !.raised = error]]
    /\ UNCHANGED <<cache, data_analysis>>
    /\ UNCHANGED <<engineVars, typeVars, rankVars, callVars>>

\* the cache drops an entry: its hour has passed
Expire(cache_key) ==
    /\ cache[cache_key] # Absent
    /\ cache' = [cache EXCEPT ![cache_key] = Absent]
    /\ UNCHANGED <<data_analysis, tasks>>
    /\ UNCHANGED <<engineVars, typeVars, rankVars, callVars>>

\* the caller has the call's result or exception
Return(t) ==
    /\ tasks[t].pc = "done"
    /\ tasks' = [tasks EXCEPT ![t] = IdleTask]
    /\ UNCHANGED <<cache, data_analysis>>
    /\ UNCHANGED <<engineVars, typeVars, rankVars, callVars>>

Next ==
    \/ \E t \in Tasks : Return(t)
    \/ \E t \in Tasks, op \in Operations, date_range \in CallRanges, metric \in CallMetrics :
            Call(t, op, date_range, IF op = "slice" THEN metric ELSE <<>>)
    \/ \E t \in Tasks, data \in UpstreamDocuments : FetchReturns(t, data)
    \/ \E t \in Tasks, error \in UpstreamErrors : FetchRaises(t, error)
    \/ \E cache_key \in CacheKeys : Expire(cache_key)

Spec == Init /\ [][Next]_vars

(***************************************************************************)
(* The value-type heuristic on one key and sample                          *)
(***************************************************************************)
\* the most words a generated key is made of
MaxWords == 2

Words ==
    { <<"g", "r", "o", "s", "s">>,
      <<"M", "a", "r", "g", "i", "n">>,
      <<"m", "a", "r", "g", "i", "n">>,
      <<"P", "e", "r", "c", "e", "n", "t", "a", "g", "e">>,
      <<"p", "e", "r", "c", "e", "n", "t", "a", "g", "e">>,
      <<"t", "o", "t", "a", "l">>,
      <<"O", "r", "d", "e", "r", "s">>,
      <<"r", "e", "v", "e", "n", "u", "e">>,
      <<"C", "o", "s", "t">>,
      <<"r", "a", "t", "e">>,
      <<"n", "e", "t">>,
      <<"C", "o", "u", "n", "t">> }

Keys == {Flatten(ws) : ws \in SeqsUpTo(Words, MaxWords)}

Samples == {IntV(3), FltV(25), FltV(30), StrV(<<"x">>), Null}

InitValueType ==
    /\ classified_key \in Keys
    /\ classified_sample \in Samples
    /\ value_type = "unset"
    /\ cache = NoCache /\ data_analysis = NoAnalysis /\ tasks = NoTasks
    /\ EngineIdle /\ RankIdle /\ CallIdle

\* _detect_value_type(key, sample_value)
Classify ==
    /\ value_type = "unset"
    /\ value_type' = DetectValueType(classified_key, classified_sample)
    /\ UNCHANGED <<classified_key, classified_sample>>
    /\ UNCHANGED <<serviceVars, engineVars, rankVars, callVars>>

NextValueType == Classify

SpecValueType == InitValueType /\ [][NextValueType]_vars

(***************************************************************************)
(* The chart-suggestion ranker on one catalog                              *)
(***************************************************************************)
\* the most descriptors a generated catalog holds
MaxCatalog == 3

Descriptor(name, type, isTimeGrouped, groupingFields) ==
    [name |-> name, type |-> type, description |-> <<>>, sampleValue |-> Null,
     valueType |-> "generic", isTimeGrouped |-> isTimeGrouped,
     groupingFields |-> groupingFields]

Labels(n) == [i \in 1..n |-> StrV(<<"A">>)]

\* descriptors of every type, with and without grouping labels, with more than
\* three of them, and with the names the waterfall and heatmap rules look for
Descriptors ==
    { Descriptor(k_revenue, "timeSeries", TRUE, <<>>),
      Descriptor(k_byChannel, "groupedSeries", TRUE, Labels(1)),
      Descriptor(k_total, "scalar", FALSE, <<>>),
      Descriptor(<<"n", "e", "t", "C", "h", "a", "n", "g", "e">>, "scalar", FALSE, <<>>),
      Descriptor(<<"D", "e", "l", "t", "a">>, "array", FALSE, <<>>),
      Descriptor(<<"u", "s", "e", "r", "D", "e", "n", "s", "i", "t", "y">>, "scalar", FALSE, <<>>),
      Descriptor(k_byChannel, "embeddedMetrics", FALSE, Labels(1)),
      Descriptor(k_byChannel, "embeddedMetrics", FALSE, Labels(4)),
      Descriptor(k_byChannel \o <<".">> \o k_sales, "groupedSeries", FALSE, Labels(1)),
      Descriptor(k_accounts, "dynamicKeyObject", FALSE, Labels(1)) }

Catalogs == SeqsUpTo(Descriptors, MaxCatalog)

InitSuggestions ==
    /\ catalog \in Catalogs
    /\ suggestions = NoSuggestions
    /\ cache = NoCache /\ data_analysis = NoAnalysis /\ tasks = NoTasks
    /\ EngineIdle /\ TypeIdle /\ CallIdle

\* _generate_chart_suggestions(metrics)
Suggest ==
    /\ ~suggestions.made
    /\ suggestions' = [made |-> TRUE, list |-> GenerateChartSuggestions(catalog)]
    /\ UNCHANGED catalog
    /\ UNCHANGED <<serviceVars, engineVars, typeVars, callVars>>

NextSuggestions == Suggest

SpecSuggestions == InitSuggestions /\ [][NextSuggestions]_vars

(***************************************************************************)
(* IrisApiService: the window of a date-range expression                   *)
(***************************************************************************)
\* int(s): blanks around the literal and a plus sign are accepted, then ASCII
\* digits; any other string of the expressions used here is no literal
ParseInt(s) ==
    LET RECURSIVE trim(_)
        trim(x) == IF x = <<>> THEN x
                   ELSE IF x[1] \in Whitespace THEN trim(Tail(x))
                   ELSE IF x[Len(x)] \in Whitespace THEN trim(SubSeq(x, 1, Len(x) - 1))
                   ELSE x
        bare == trim(s)
        digits == IF bare # <<>> /\ bare[1] = "+" THEN Tail(bare) ELSE bare
        RECURSIVE val(_)
        val(k) == IF k = 0 THEN 0
                  ELSE 10 * val(k - 1) + (CHOOSE d \in 0..9 : DigitChars[d + 1] = digits[k])
    IN  IF digits # <<>> /\ \A i \in 1..Len(digits) : IsDigit(digits[i])
        THEN [exc |-> "none", msg |-> <<>>, n |-> val(Len(digits))]
        ELSE [exc |-> "ValueError",
              msg |-> <<"i", "n", "v", "a", "l", "i", "d", " ", "l", "i", "t", "e", "r", "a", "l", " ",
                        "f", "o", "r", " ", "i", "n", "t", "(", ")", " ", "w", "i", "t", "h", " ",
                        "b", "a", "s", "e", " ", "1", "0", ":", " ", "'">> \o s \o <<"'">>,
              n |-> 0]

\* "%0{width}d" % n
Pad(n, width) ==
    LET digits == IntToStr(n)
    IN  IF Len(digits) >= width THEN digits
        ELSE [i \in 1..(width - Len(digits)) |-> "0"] \o digits

IsLeap(year) == (year % 4 = 0 /\ year % 100 # 0) \/ year % 400 = 0

DaysInMonth(year, month) ==
    IF month = 2 THEN (IF IsLeap(year) THEN 29 ELSE 28)
    ELSE IF month \in {4, 6, 9, 11} THEN 30 ELSE 31

\* datetime.MINYEAR
MINYEAR == 1

\* datetime.MAXYEAR
MAXYEAR == 9999

\* datetime(year, month, day): the date, or the ValueError of its constructor
Datetime(year, month, day) ==
    IF year < MINYEAR \/ year > MAXYEAR
    THEN [exc |-> "ValueError",
          msg |-> <<"y", "e", "a", "r", " ">> \o IntToStr(year) \o <<" ", "i", "s", " ", "o", "u", "t", " ", "o", "f", " ", "r", "a", "n", "g", "e">>,
          year |-> 0, month |-> 0, day |-> 0]
    ELSE IF month < 1 \/ month > 12
    THEN [exc |-> "ValueError", msg |-> <<"m", "o", "n", "t", "h", " ", "m", "u", "s", "t", " ", "b", "e", " ", "i", "n", " ", "1", ".", ".", "1", "2">>,
          year |-> 0, month |-> 0, day |-> 0]
    ELSE IF day < 1 \/ day > DaysInMonth(year, month)
    THEN [exc |-> "ValueError", msg |-> <<"d", "a", "y", " ", "i", "s", " ", "o", "u", "t", " ", "o", "f", " ", "r", "a", "n", "g", "e", " ", "f", "o", "r", " ", "m", "o", "n", "t", "h">>,
          year |-> 0, month |-> 0, day |-> 0]
    ELSE [exc |-> "none", msg |-> <<>>, year |-> year, month |-> month, day |-> day]

\* d - timedelta(days=days), for a date after the year 1
RECURSIVE MinusDays(_, _)
MinusDays(d, days) ==
    IF days = 0 THEN d
    ELSE MinusDays(
            IF d.day > 1 THEN [d EXCEPT !.day = d.day - 1]
            ELSE IF d.month > 1
            THEN [d EXCEPT !.month = d.month - 1,
                           !.day = DaysInMonth(d.year, d.month - 1)]
            ELSE [d EXCEPT !.year = d.year - 1, !.month = 12, !.day = 31],
            days - 1)

midnight == <<"T", "0", "0", ":", "0", "0", ":", "0", "0">>

start_of_day == <<"T", "0", "0", ":", "0", "0", ":", "0", "0", ".", "0", "0", "0", "Z">>

end_of_day == <<"T", "2", "3", ":", "5", "9", ":", "5", "9", ".", "9", "9", "9", "Z">>

\* datetime.isoformat(): the date, then the time of day as clock gives it
Isoformat(d, clock) ==
    Pad(d.year, 4) \o <<"-">> \o Pad(d.month, 2) \o <<"-">> \o Pad(d.day, 2) \o clock

\* s.replace(old, new)
RECURSIVE Replace(_, _, _)
Replace(s, old, new) ==
    IF Len(s) < Len(old) THEN s
    ELSE IF SubSeq(s, 1, Len(old)) = old
    THEN new \o Replace(SubSeq(s, Len(old) + 1, Len(s)), old, new)
    ELSE <<s[1]>> \o Replace(Tail(s), old, new)

\* s.count(c) for a one-character c
CountChar(s, c) == Cardinality({i \in 1..Len(s) : s[i] = c})

\* what _parse_date_range returns, (start_date, end_date), or raises
Window(start_date, end_date) ==
    [exc |-> "none", msg |-> <<>>, start_date |-> start_date, end_date |-> end_date]

NoWindow(exc, msg) == [exc |-> exc, msg |-> msg, start_date |-> <<>>, end_date |-> <<>>]

\* now - timedelta(days=6) to now; now is [date, clock]
CurrentWeek(now) ==
    Window(Isoformat(MinusDays(now.date, 6), now.clock), Isoformat(now.date, now.clock))

\* the month branch of _parse_date_range
MonthWindow(date_range) ==
    LET parts == SplitOn(date_range, "-")
        year == ParseInt(parts[1])
        month == ParseInt(parts[2])
    IN  IF year.exc # "none" THEN NoWindow(year.exc, year.msg)
        ELSE IF month.exc # "none" THEN NoWindow(month.exc, month.msg)
        ELSE LET start_date == Datetime(year.n, month.n, 1)
                 next_month == IF month.n = 12 THEN Datetime(year.n + 1, 1, 1)
                               ELSE Datetime(year.n, month.n + 1, 1)
             IN  IF start_date.exc # "none" THEN NoWindow(start_date.exc, start_date.msg)
                 ELSE IF next_month.exc # "none"
                 THEN NoWindow(next_month.exc, next_month.msg)
                 ELSE Window(Replace(Isoformat(start_date, midnight), midnight, start_of_day),
                             Replace(Isoformat(MinusDays(next_month, 1), midnight),
                                     midnight, end_of_day))

\* _parse_date_range; <<>> is None or the empty string
ParseDateRange(date_range, now) ==
    IF date_range = <<>> THEN CurrentWeek(now)
    ELSE IF Contains(date_range, <<",">>)
    THEN LET halves == SplitOn(date_range, ",")
         IN  IF Len(halves) # 2
             THEN NoWindow("ValueError", <<"t", "o", "o", " ", "m", "a", "n", "y", " ", "v", "a", "l", "u", "e", "s", " ", "t", "o", " ", "u", "n", "p", "a", "c", "k", " ", "(", "e", "x", "p", "e", "c", "t", "e", "d", " ", "2", ")">>)
             ELSE IF Contains(halves[1], <<"T">>) /\ Contains(halves[2], <<"T">>)
             THEN Window(halves[1], halves[2])
             ELSE Window(halves[1] \o start_of_day, halves[2] \o end_of_day)
    ELSE IF Len(date_range) = 10 /\ CountChar(date_range, "-") = 2
    THEN Window(date_range \o start_of_day, date_range \o end_of_day)
    ELSE IF Len(date_range) = 4 /\ \A i \in 1..4 : IsDigit(date_range[i])
    THEN LET year == IntToStr(ParseInt(date_range).n)
         IN  Window(year \o <<"-", "0", "1", "-", "0", "1", "T", "0", "0", ":", "0", "0", ":", "0", "0", ".", "0", "0", "0", "Z">>, year \o <<"-", "1", "2", "-", "3", "1", "T", "2", "3", ":", "5", "9", ":", "5", "9", ".", "9", "9", "9", "Z">>)
    ELSE IF Len(date_range) = 7 /\ CountChar(date_range, "-") = 1
    THEN MonthWindow(date_range)
    ELSE CurrentWeek(now)

(***************************************************************************)
(* _parse_date_range and the slicers' date test on one expression          *)
(***************************************************************************)
\* the three service groups and the other helpers unused
ServiceIdle == cache = NoCache /\ data_analysis = NoAnalysis /\ tasks = NoTasks

\* the years of the expressions
RangeYears == {0, 1, 5, 1900, 2000, 2023, 2024, 9999}

\* the months of the expressions, 00 and 13 among them
RangeMonths == 0..13

YearExpression(year) == Pad(year, 4)

MonthExpression(year, month) == Pad(year, 4) \o <<"-">> \o Pad(month, 2)

r_leapDay == <<"2", "0", "2", "4", "-", "0", "2", "-", "2", "9">>

r_threeHalves == <<"2", "0", "2", "4", "-", "0", "1", "-", "0", "1", "T", "0", "0", ":", "0", "0", ":", "0", "0", "Z", ",", "2", "0", "2", "4", "-", "0", "1", "-", "1", "5", "T", "0", "0", ":", "0", "0", ":", "0", "0", "Z", ",", "2", "0", "2", "4", "-", "0", "1", "-", "3", "1", "T", "0", "0", ":", "0", "0", ":", "0", "0", "Z">>

r_mixedPair == <<"2", "0", "2", "4", "-", "0", "1", "-", "0", "1", "T", "0", "0", ":", "0", "0", ":", "0", "0", "Z", ",", "2", "0", "2", "4", "-", "0", "1", "-", "3", "1">>

r_monthNewline == <<"2", "0", "2", "4", "-", "0", "1">> \o <<"\n">>

r_letters == <<"a", "b", "c", "d", "-", "e", "f">>

r_longYear == <<"1", "2", "3", "4", "5", "-", "6">>

\* the date_range arguments; <<>> is None
RangeExpressions ==
    {<<>>, r_day, r_leapDay, r_custom, r_dateOnlyPair, r_threeHalves, r_mixedPair,
     r_monthNewline, r_letters, r_longYear, r_word}
    \cup {YearExpression(y) : y \in RangeYears}
    \cup {MonthExpression(y, m) : y \in RangeYears, m \in RangeMonths}

\* datetime.now(): a date and the time of day as isoformat() prints it
Clocks ==
    { [date |-> [exc |-> "none", msg |-> <<>>, year |-> 2026, month |-> 11, day |-> 2],
       clock |-> <<"T", "0", "9", ":", "3", "0", ":", "0", "0", ".", "1", "2", "3", "4", "5", "6">>],
      [date |-> [exc |-> "none", msg |-> <<>>, year |-> 2024, month |-> 3, day |-> 3],
       clock |-> midnight] }

InitDateRange ==
    /\ arguments \in [date_range : RangeExpressions, now : Clocks]
    /\ returned = NoCall
    /\ ServiceIdle /\ EngineIdle /\ TypeIdle /\ RankIdle

\* _parse_date_range(date_range)
ParseRange ==
    /\ returned = NoCall
    /\ returned' = ParseDateRange(arguments.date_range, arguments.now)
    /\ UNCHANGED arguments
    /\ UNCHANGED <<serviceVars, engineVars, typeVars, rankVars>>

NextDateRange == ParseRange

SpecDateRange == InitDateRange /\ [][NextDateRange]_vars

(***************************************************************************)
(* _is_dynamic_key_object on one value, and analyze_data on a document     *)
(* that holds the value under the key "accounts"                           *)
(***************************************************************************)
\* the most entries of a candidate mapping
MaxKeyed == 2

k_US == <<"U", "S">>

k_hyphens == <<"-", "-", "-", "-", "-", "-", "-", "-", "-", "-", "-", "-", "-", "-", "-", "-", "-", "-", "-", "-", "-">>

k_underscored == <<"a", "c", "c", "t", "_", "0", "0", "0", "0", "_", "0", "0", "0", "0", "_", "0", "0", "0", "0", "_", "1">>

\* keys of candidate mappings: two ids of 21 characters, a short key, a key of
\* exactly 20 characters, a key of 21 hyphens and a long key with underscores
CandidateKeys == {AccountId(1), AccountId(2), k_US, id_stem, k_hyphens, k_underscored}

CandidateValues ==
    Entries \cup { Rec(<<k_balance, s_name>>, <<IntV(9), StrV(<<"R">>)>>),
                   DictV(<<>>, <<>>), IntV(3) }

Candidates ==
    { DictV(ks, vs) : ks \in {s \in SeqsUpTo(CandidateKeys, MaxKeyed) :
                                \A i, j \in 1..Len(s) : i # j => s[i] # s[j]},
                      vs \in SeqsUpTo(CandidateValues, MaxKeyed) }
    \cup {IntV(7), Null, ListV(<<>>)}

NotTested == [tested |-> FALSE, accepted |-> FALSE, analysis |-> NoAnalysis]

InitDynamicKey ==
    /\ arguments \in {c \in Candidates : IsDict(c) => Len(c.ks) = Len(c.vs)}
    /\ returned = NotTested
    /\ ServiceIdle /\ EngineIdle /\ TypeIdle /\ RankIdle

\* _is_dynamic_key_object(value)
TestDynamicKey ==
    /\ ~returned.tested
    /\ returned' = [returned EXCEPT !.tested = TRUE,
                                    !.accepted = IsDynamicKeyObject(arguments)]
    /\ UNCHANGED arguments
    /\ UNCHANGED <<serviceVars, engineVars, typeVars, rankVars>>

\* analyze_data({"accounts": value})
AnalyzeHolder ==
    /\ returned.analysis = NoAnalysis
    /\ returned' = [returned EXCEPT
                        !.analysis = AnalyzeData(DictV(<<k_accounts>>, <<arguments>>))]
    /\ UNCHANGED arguments
    /\ UNCHANGED <<serviceVars, engineVars, typeVars, rankVars>>

NextDynamicKey == TestDynamicKey \/ AnalyzeHolder

SpecDynamicKey == InitDynamicKey /\ [][NextDynamicKey]_vars

(***************************************************************************)
(* DataAnalysisService.find_best_metric_match                              *)
(***************************************************************************)
\* the non-empty pieces of s between the characters of separators, a piece also
\* ending before an upper-case letter where at_upper; done are the pieces
\* finished so far and piece the one being read
RECURSIVE Pieces(_, _, _, _, _)
Pieces(s, separators, at_upper, done, piece) ==
    LET closed == IF piece = <<>> THEN done ELSE Append(done, piece)
    IN  IF s = <<>> THEN closed
        ELSE IF s[1] \in separators THEN Pieces(Tail(s), separators, at_upper, closed, <<>>)
        ELSE IF at_upper /\ IsUpper(s[1])
        THEN Pieces(Tail(s), separators, at_upper, closed, <<s[1]>>)
        ELSE Pieces(Tail(s), separators, at_upper, done, Append(piece, s[1]))

\* prompt_lower.split()
PromptKeywords(prompt_lower) == Pieces(prompt_lower, Whitespace, FALSE, <<>>, <<>>)

\* [mk for mk in re.split(r'(?=[A-Z])|[\s_.-]+', name) if mk]
MetricKeywords(name) == Pieces(name, Whitespace \cup {"_", ".", "-"}, TRUE, <<>>, <<>>)

\* metric.name.split(".")[-1]
BaseName(name) == LET parts == SplitOn(name, ".") IN parts[Len(parts)]

\* the score of the keyword-matching loop for one metric
KeywordScore(keywords, metric) ==
    LET metric_keywords == MetricKeywords(Lower(metric.name))
        hits == {k \in 1..Len(keywords) :
                    \E i \in 1..Len(metric_keywords) :
                        \/ Contains(metric_keywords[i], keywords[k])
                        \/ Contains(keywords[k], metric_keywords[i])}
        sample == metric.sampleValue
        embedded ==
            /\ IsList(sample)
            /\ \E i \in 1..Len(sample.vs) :
                    /\ IsStr(sample.vs[i])
                    /\ \E k \in 1..Len(keywords) :
                            \/ Contains(Lower(sample.vs[i].s), keywords[k])
                            \/ Contains(keywords[k], Lower(sample.vs[i].s))
    IN  Cardinality(hits) + (IF embedded THEN 2 ELSE 0)

NoMatch == [found |-> FALSE, metric |-> Null]

Match(metric) == [found |-> TRUE, metric |-> metric]

\* the second loop: the first metric of the highest score above 0
RECURSIVE BestByScore(_, _, _, _)
BestByScore(keywords, metrics, best_match, best_score) ==
    IF metrics = <<>> THEN best_match
    ELSE LET score == KeywordScore(keywords, metrics[1])
         IN  IF score > best_score
             THEN BestByScore(keywords, Tail(metrics), Match(metrics[1]), score)
             ELSE BestByScore(keywords, Tail(metrics), best_match, best_score)

FindBestMetricMatch(prompt, metrics) ==
    LET prompt_lower == Lower(prompt)
        direct == {i \in 1..Len(metrics) :
                      \/ Contains(prompt_lower, Lower(metrics[i].name))
                      \/ Contains(prompt_lower, Lower(BaseName(metrics[i].name)))}
    IN  IF direct # {} THEN Match(metrics[CHOOSE i \in direct : \A j \in direct : i <= j])
        ELSE BestByScore(PromptKeywords(prompt_lower), metrics, NoMatch, 0)

\* the longest catalog matched against
MaxMatched == 2

p_revenues == <<"r", "e", "v", "e", "n", "u", "e", "s">>

p_showSales == <<"S", "h", "o", "w", " ", "S", "A", "L", "E", "S">>

p_grossly == <<"g", "r", "o", "s", "s", "l", "y", " ", "e", "x", "a", "g", "g", "e", "r", "a", "t", "e", "d">>

p_channelRevenue == <<"t", "o", "t", "a", "l", " ", "r", "e", "v", "e", "n", "u", "e", " ", "b", "y", " ", "c", "h", "a", "n", "n", "e", "l">>

p_orderOrder == <<"o", "r", "d", "e", "r", " ", "o", "r", "d", "e", "r">>

p_byChannel == <<"c", "h", "a", "r", "t", " ", "b", "y", "C", "h", "a", "n", "n", "e", "l">>

p_blank == <<" ", " ">>

Prompts ==
    {<<>>, p_blank, p_revenues, p_showSales, p_grossly, p_channelRevenue, p_orderOrder,
     p_byChannel}

k_grossRevenue == <<"g", "r", "o", "s", "s", "R", "e", "v", "e", "n", "u", "e">>

k_totalRevenueByChannel == <<"t", "o", "t", "a", "l", "R", "e", "v", "e", "n", "u", "e", "B", "y", "C", "h", "a", "n", "n", "e", "l">>

k_net_sales == <<"n", "e", "t", "_", "s", "a", "l", "e", "s">>

k_orders == <<"o", "r", "d", "e", "r", "s">>

\* a descriptor with its sampleValue
Sampled(name, type, sampleValue) ==
    [Descriptor(name, type, FALSE, <<>>) EXCEPT !.sampleValue = sampleValue]

\* the descriptors matched against
Matchables ==
    { Sampled(k_grossRevenue, "scalar", IntV(5)),
      Sampled(k_total, "scalar", IntV(7)),
      Sampled(k_totalRevenueByChannel, "scalar", IntV(7)),
      Sampled(k_net_sales, "scalar", IntV(7)),
      Sampled(k_byChannel, "embeddedMetrics", ListV(<<StrV(k_orders)>>)),
      Sampled(k_byChannel \o <<".">> \o k_orders, "groupedSeries", ListV(<<IntV(10)>>)) }

InitBestMatch ==
    /\ arguments \in [prompt : Prompts, metrics : SeqsUpTo(Matchables, MaxMatched)]
    /\ returned = NoCall
    /\ ServiceIdle /\ EngineIdle /\ TypeIdle /\ RankIdle

\* find_best_metric_match(prompt, metrics)
FindBest ==
    /\ returned = NoCall
    /\ returned' = FindBestMetricMatch(arguments.prompt, arguments.metrics)
    /\ UNCHANGED arguments
    /\ UNCHANGED <<serviceVars, engineVars, typeVars, rankVars>>

NextBestMatch == FindBest

SpecBestMatch == InitBestMatch /\ [][NextBestMatch]_vars

(***************************************************************************)
(* One expression through slice: the window load requests upstream, the    *)
(* format test of slice and the date test of the slicers on one record     *)
(***************************************************************************)
\* the rule of _parse_date_range that answers for date_range, by the order of
\* its tests: 1 default, 2 custom range, 3 single day, 4 year, 5 month, 6 fallback
SelectedRule(date_range) ==
    IF date_range = <<>> THEN 1
    ELSE IF Contains(date_range, <<",">>) THEN 2
    ELSE IF Len(date_range) = 10 /\ CountChar(date_range, "-") = 2 THEN 3
    ELSE IF Len(date_range) = 4 /\ \A i \in 1..4 : IsDigit(date_range[i]) THEN 4
    ELSE IF Len(date_range) = 7 /\ CountChar(date_range, "-") = 1 THEN 5
    ELSE 6

\* the branch of the filter loops that tests a record's date, numbered as the
\* rule of _parse_date_range it stands for
FilterRule(date_range) ==
    IF Contains(date_range, <<",">>) THEN 2
    ELSE IF MatchesDay(date_range) THEN 3
    ELSE IF Contains(date_range, <<"-">>) THEN 5
    ELSE 4

\* slice up to its format test: load asks _parse_date_range for the window,
\* then the expression has to be non-blank and of a known format
SliceAccepts(date_range, now) ==
    /\ ParseDateRange(date_range, now).exc = "none"
    /\ date_range # <<>> /\ ~IsBlank(date_range)
    /\ IsValidFormat(date_range)

d_jan15 == <<"2", "0", "2", "5", "-", "0", "1", "-", "1", "5">>

d_jan31 == <<"2", "0", "2", "5", "-", "0", "1", "-", "3", "1">>

d_feb01 == <<"2", "0", "2", "5", "-", "0", "2", "-", "0", "1">>

d_leap == <<"2", "0", "2", "4", "-", "0", "2", "-", "2", "9">>

d_jan2024 == <<"2", "0", "2", "4", "-", "0", "1", "-", "1", "5">>

d_year5 == <<"0", "0", "0", "5", "-", "0", "3", "-", "0", "1">>

\* the dates of the records, all YYYY-MM-DD
RecordDates == {d_jan15, d_jan31, d_feb01, d_leap, d_jan2024, d_year5}

InitWindow ==
    /\ arguments \in [date_range : RangeExpressions, now : Clocks, date : RecordDates]
    /\ returned = NoCall
    /\ ServiceIdle /\ EngineIdle /\ TypeIdle /\ RankIdle

\* slice(metric, date_range) over one record dated arguments.date
SliceWindow ==
    /\ returned = NoCall
    /\ LET date_range == arguments.date_range
           window == ParseDateRange(date_range, arguments.now)
           accepted == SliceAccepts(date_range, arguments.now)
       IN  returned' = [window |-> window,
                        accepted |-> accepted,
                        kept |-> IF accepted THEN DateFilter(date_range, StrV(arguments.date))
                                 ELSE V(BoolV(FALSE))]
    /\ UNCHANGED arguments
    /\ UNCHANGED <<serviceVars, engineVars, typeVars, rankVars>>

NextWindow == SliceWindow

SpecWindow == InitWindow /\ [][NextWindow]_vars

(***************************************************************************)
(* slice on a cached key: load() returns the cached document and leaves    *)
(* self.data_analysis as the last fetch stored it, for this key or another *)
(***************************************************************************)
e_checking == Rec(<<s_name, k_balance>>, <<StrV(<<"N">>), IntV(5)>>)

e_unnamed == Rec(<<s_name, k_balance>>, <<StrV(<<>>), FltV(25)>>)

e_nameOnly == Rec(<<s_name>>, <<StrV(<<"M">>)>>)

e_emptyKey == Rec(<<s_name, <<>>>>, <<StrV(<<"E">>), IntV(3)>>)

\* the documents of the cached keys: dynamic-key objects under "accounts" whose
\* first entry has a numeric field, has none, or has one under the empty key; a
\* number and an empty mapping in their place
CachedDocuments ==
    { DictV(<<k_accounts>>, <<DictV(<<AccountId(1)>>, <<e_checking>>)>>),
      DictV(<<k_accounts>>, <<DictV(<<AccountId(1), AccountId(2)>>, <<e_checking, e_unnamed>>)>>),
      DictV(<<k_accounts>>, <<DictV(<<AccountId(1)>>, <<e_nameOnly>>)>>),
      DictV(<<k_accounts>>, <<DictV(<<AccountId(1), AccountId(2)>>, <<e_nameOnly, e_nameOnly>>)>>),
      DictV(<<k_accounts>>, <<DictV(<<AccountId(1)>>, <<e_emptyKey>>)>>),
      DictV(<<k_accounts>>, <<IntV(7)>>),
      DictV(<<k_accounts>>, <<DictV(<<>>, <<>>)>>) }

CachedMetrics == {k_accounts, k_accounts \o <<".">> \o k_balance, k_balance, <<"z", "z">>}

CachedRanges == {r_month, r_day, r_word}

InitCached ==
    /\ arguments \in [data : CachedDocuments, analysed : CachedDocuments,
                      metric : CachedMetrics, date_range : CachedRanges]
    /\ returned = NoCall
    /\ ServiceIdle /\ EngineIdle /\ TypeIdle /\ RankIdle

\* slice(metric, date_range) where load() finds the key cached: data is the
\* cached document, self.data_analysis the analysis of the last fetched one
SliceCached ==
    /\ returned = NoCall
    /\ returned' = SliceCore(arguments.data, AnalyzeData(arguments.analysed),
                             arguments.metric, arguments.date_range, <<>>)
    /\ UNCHANGED arguments
    /\ UNCHANGED <<serviceVars, engineVars, typeVars, rankVars>>

NextCached == SliceCached

SpecCached == InitCached /\ [][NextCached]_vars

(***************************************************************************)
(* _extract_metrics_recursively call by call: the calls in progress are    *)
(* frames [data, key_path, depth, at], at the entry of data.items() the    *)
(* loop has reached (0 before the guard of the call is passed)             *)
(***************************************************************************)
\* the deepest a document of the walk nests mappings
MaxNesting == 12

RECURSIVE Nested(_, _)
\* depth mappings one inside the other, each with a number beside the next one
Nested(depth, leaf) ==
    IF depth = 0 THEN leaf
    ELSE DictV(<<k_total, k_net>>, <<IntV(7), Nested(depth - 1, leaf)>>)

\* what the innermost key holds
Leaves ==
    { IntV(7), Null, DictV(<<>>, <<>>),
      ListV(<<Rec(<<s_date, s_value>>, <<StrV(day_1), IntV(100)>>)>>),
      Rec(<<s_dates, s_values>>,
          <<ListV(<<StrV(day_1)>>),
            ListV(<<Rec(<<s_label, s_values>>, <<StrV(<<"A">>), ListV(<<IntV(1)>>)>>)>>)>>),
      DictV(<<AccountId(1)>>, <<Rec(<<s_name, k_total>>, <<StrV(<<"N">>), IntV(5)>>)>>) }

WalkDocuments == {Nested(depth, leaf) : depth \in 1..MaxNesting, leaf \in Leaves}

Frame(data, key_path, depth) == [data |-> data, key_path |-> key_path, depth |-> depth, at |-> 0]

InitWalk ==
    /\ arguments \in [data : WalkDocuments]
    /\ returned = NoCall
    /\ ServiceIdle /\ EngineIdle /\ TypeIdle /\ RankIdle

\* analyze_data: self._extract_metrics_recursively(data)
CallWalk ==
    /\ returned = NoCall
    /\ returned' = [exc |-> "none", frames |-> <<Frame(arguments.data, <<>>, 0)>>,
                    metrics |-> <<>>, classified |-> <<>>, recursed |-> <<>>, cut |-> FALSE]
    /\ UNCHANGED arguments
    /\ UNCHANGED <<serviceVars, engineVars, typeVars, rankVars>>

Top == returned.frames[Len(returned.frames)]

Popped == SubSeq(returned.frames, 1, Len(returned.frames) - 1)

Walking == returned # NoCall /\ returned.exc = "none" /\ returned.frames # <<>>

\* if depth > max_depth or not data or not isinstance(data, dict): return metrics
EnterCall ==
    /\ Walking /\ Top.at = 0
    /\ returned' =
        IF Top.depth > max_depth
        THEN [returned EXCEPT !.frames = Popped, !.cut = TRUE]
        ELSE IF ~Truthy(Top.data) \/ ~IsDict(Top.data)
        THEN [returned EXCEPT !.frames = Popped]
        ELSE [returned EXCEPT !.frames = Append(Popped, [Top EXCEPT !.at = 1])]
    /\ UNCHANGED arguments
    /\ UNCHANGED <<serviceVars, engineVars, typeVars, rankVars>>

\* one turn of the loop over data.items()
VisitEntry ==
    /\ Walking /\ Top.at \in 1..Len(Top.data.ks)
    /\ LET key == Top.data.ks[Top.at]
           value == Top.data.vs[Top.at]
           full_path == Append(Top.key_path, key)
           current_path == IF Top.key_path # <<>> THEN JoinWith(full_path, <<".">>) ELSE key
           metric == AnalyzeMetric(key, value, current_path)
           found == Chain(<< metric,
                             IF IsList(value) /\ value.vs # <<>> /\ IsDict(value.vs[1])
                             THEN ExtractFromObjectArray(value.vs, current_path)
                             ELSE Ok(<<>>),
                             IF IsDynamicKeyObject(value)
                             THEN ExtractFromDynamicKeyObject(key, value, current_path)
                             ELSE Ok(<<>>) >>)
           advanced == Append(Popped, [Top EXCEPT !.at = Top.at + 1])
       IN  returned' =
            IF found.exc # "none"
            THEN [returned EXCEPT !.exc = found.exc, !.frames = <<>>]
            ELSE [returned EXCEPT
                    !.metrics = returned.metrics \o found.metrics,
                    !.classified = IF metric.metrics # <<>>
                                   THEN Append(returned.classified, full_path)
                                   ELSE returned.classified,
                    !.recursed = IF ShouldRecurseInto(value, full_path)
                                 THEN Append(returned.recursed,
                                             [value |-> value, path |-> full_path])
                                 ELSE returned.recursed,
                    !.frames = IF ShouldRecurseInto(value, full_path)
                               THEN Append(advanced, Frame(value, full_path, Top.depth + 1))
                               ELSE advanced]
    /\ UNCHANGED arguments
    /\ UNCHANGED <<serviceVars, engineVars, typeVars, rankVars>>

\* return metrics, at the end of the loop
ReturnCall ==
    /\ Walking /\ Top.at > Len(Top.data.ks)
    /\ returned' = [returned EXCEPT !.frames = Popped]
    /\ UNCHANGED arguments
    /\ UNCHANGED <<serviceVars, engineVars, typeVars, rankVars>>

NextWalk == CallWalk \/ EnterCall \/ VisitEntry \/ ReturnCall

SpecWalk == InitWalk /\ [][NextWalk]_vars

(***************************************************************************)
(* DashboardService.generate_dashboard: the chart tasks it gathers run     *)
(* their slices in any order; the document and its analysis are the same   *)
(* for every key the slices load                                           *)
(***************************************************************************)
\* the most chart specifications of a dashboard
MaxCharts == 3

\* the document MetricsService answers the slices from
DashboardDocument ==
    DictV(<<k_revenue, k_byChannel>>,
          << ListV(<<Rec(<<s_date, s_value>>, <<StrV(day_1), IntV(100)>>)>>),
             ListV(<<Rec(<<s_connector, k_sales>>, <<StrV(<<"A">>), IntV(10)>>)>>) >>)

\* what _generate_chart_specs may hand over: a time series, category rows, a
\* metric the catalog does not have, a date range slice refuses
ChartSpecs ==
    { [chartType |-> "line", metric |-> k_revenue, dateRange |-> r_month, groupBy |-> <<>>],
      [chartType |-> "bar", metric |-> k_byChannel, dateRange |-> r_month, groupBy |-> <<>>],
      [chartType |-> "bar", metric |-> <<"z", "z">>, dateRange |-> r_month, groupBy |-> <<>>],
      [chartType |-> "line", metric |-> k_revenue, dateRange |-> r_word, groupBy |-> <<>>] }

Pending == [exc |-> "pending"]

\* _create_chart_with_data(spec, index): the chart, or the error of slice raised
\* again; index counts from 0
CreateChartWithData(spec, index) ==
    LET data == SliceCore(DashboardDocument, AnalyzeData(DashboardDocument),
                          spec.metric, spec.dateRange, spec.groupBy)
    IN  IF data.exc # "none" THEN [exc |-> data.exc, msg |-> data.msg]
        ELSE [exc |-> "none", chartType |-> spec.chartType, metric |-> spec.metric,
              dateRange |-> spec.dateRange,
              id |-> <<"c", "h", "a", "r", "t", "_">> \o IntToStr(index + 1),
              data |-> [dates |-> data.dates, values |-> data.values],
              row |-> (index \div 2) + 1, col |-> (index % 2) + 1, span |-> 4]

\* the charts up to the first one that failed
SuccessfulUntilFailure(charts) ==
    KeepAt(charts, {i \in 1..Len(charts) : \A j \in 1..i : charts[j].exc = "none"})

\* the loop over the gathered results that leaves the exceptions out
SuccessfulCharts(charts) ==
    KeepAt(charts, {i \in 1..Len(charts) : charts[i].exc = "none"})

\* _generate_insights(charts, prompt)
GenerateInsights(charts) ==
    LET chart_types == {charts[i].chartType : i \in 1..Len(charts)}
        has_time_series == \E i \in 1..Len(charts) : charts[i].chartType = "line"
        has_comparison == \E i \in 1..Len(charts) : charts[i].chartType \in {"bar", "stacked-bar"}
        insights ==
            (IF Len(charts) > 3
             THEN << <<"G", "e", "n", "e", "r", "a", "t", "e", "d", " ">> \o IntToStr(Len(charts))
                     \o <<" ", "r", "e", "l", "a", "t", "e", "d", " ", "c", "h", "a", "r", "t", "s", " ", "f", "o", "r", " ", "c", "o", "m", "p", "r", "e", "h", "e", "n", "s", "i", "v", "e", " ", "a", "n", "a", "l", "y", "s", "i", "s">> >>
             ELSE <<>>)
            \o (IF Cardinality(chart_types) > 2
                THEN << <<"M", "u", "l", "t", "i", "p", "l", "e", " ", "v", "i", "s", "u", "a", "l", "i", "z", "a", "t", "i", "o", "n", " ", "t", "y", "p", "e", "s", " ", "u", "s", "e", "d", " ", "f", "o", "r", " ", "d", "i", "f", "f", "e", "r", "e", "n", "t", " ", "d", "a", "t", "a", " ", "p", "e", "r", "s", "p", "e", "c", "t", "i", "v", "e", "s">> >>
                ELSE <<>>)
            \o (IF has_time_series /\ has_comparison
                THEN << <<"D", "a", "s", "h", "b", "o", "a", "r", "d", " ", "i", "n", "c", "l", "u", "d", "e", "s", " ", "b", "o", "t", "h", " ", "t", "r", "e", "n", "d", " ", "a", "n", "a", "l", "y", "s", "i", "s", " ", "a", "n", "d", " ", "c", "o", "m", "p", "a", "r", "a", "t", "i", "v", "e", " ", "m", "e", "t", "r", "i", "c", "s">> >>
                ELSE <<>>)
    IN  Take(insights, 3)

Response(charts, insights, totalCharts, error) ==
    [charts |-> charts, insights |-> insights, totalCharts |-> totalCharts, error |-> error]

NoResponse == Response(<<>>, <<>>, 0, <<>>)

InitDashboard ==
    /\ arguments \in [chart_specs : SeqsUpTo(ChartSpecs, MaxCharts),
                      includeInsights : BOOLEAN, upstream : {"answers", "fails"}]
    /\ returned = NoCall
    /\ ServiceIdle /\ EngineIdle /\ TypeIdle /\ RankIdle

\* generate_dashboard up to the gather: get_data_analysis raises, or no metric
\* relates to the prompt, or one task per chart specification is started
GenerateDashboard ==
    /\ returned = NoCall
    /\ returned' =
        IF arguments.upstream = "fails"
        THEN [pc |-> "done", charts |-> <<>>,
              response |-> Response(<<>>, <<>>, 0, load_failed)]
        ELSE IF arguments.chart_specs = <<>>
        THEN [pc |-> "done", charts |-> <<>>,
              response |-> Response(<<>>,
                                    <<"N", "o", " ", "s", "u", "i", "t", "a", "b", "l", "e", " ", "m", "e", "t", "r", "i", "c", "s", " ", "f", "o", "u", "n", "d", " ", "f", "o", "r", " ", "t", "h", "e", " ", "r", "e", "q", "u", "e", "s", "t", "e", "d", " ", "d", "a", "s", "h", "b", "o", "a", "r", "d">>,
                                    0, <<"N", "o", " ", "v", "i", "s", "u", "a", "l", "i", "z", "a", "b", "l", "e", " ", "m", "e", "t", "r", "i", "c", "s", " ", "f", "o", "u", "n", "d">>)]
        ELSE [pc |-> "gathering",
              charts |-> [i \in 1..Len(arguments.chart_specs) |-> Pending],
              response |-> NoResponse]
    /\ UNCHANGED arguments
    /\ UNCHANGED <<serviceVars, engineVars, typeVars, rankVars>>

\* the task of chart specification i ends, with its chart or with its error
ChartTaskEnds(i) ==
    /\ returned # NoCall /\ returned.pc = "gathering"
    /\ i \in 1..Len(returned.charts) /\ returned.charts[i] = Pending
    /\ returned' = [returned EXCEPT
                      !.charts[i] = CreateChartWithData(arguments.chart_specs[i], i - 1)]
    /\ UNCHANGED arguments
    /\ UNCHANGED <<serviceVars, engineVars, typeVars, rankVars>>

\* generate_dashboard from the return of the gather to its own
Respond ==
    /\ returned # NoCall /\ returned.pc = "gathering"
    /\ \A i \in 1..Len(returned.charts) : returned.charts[i] # Pending
    /\ LET successful_charts == SuccessfulCharts(returned.charts)
           insights == IF arguments.includeInsights THEN GenerateInsights(successful_charts)
                       ELSE <<>>
       IN  returned' = [returned EXCEPT
                          !.pc = "done",
                          !.response = Response(successful_charts,
                                                IF insights # <<>> THEN insights[1] ELSE <<>>,
                                                Len(successful_charts), <<>>)]
    /\ UNCHANGED arguments
    /\ UNCHANGED <<serviceVars, engineVars, typeVars, rankVars>>

NextDashboard ==
    \/ GenerateDashboard
    \/ \E i \in 1..MaxCharts : ChartTaskEnds(i)
    \/ Respond

SpecDashboard == InitDashboard /\ [][NextDashboard]_vars

(***************************************************************************)
(* Claims on MetricsService (Spec)                                         *)
(***************************************************************************)
\* C1: the catalog a slice call resolves and dispatches its metric with
\* (self.data_analysis as the call reads it) is the analysis of the document the
\* same call slices, the one cached under its date-range key, also when the call
\* is a cache hit that follows a fetch for another key.
C1_CatalogOfSlicedDocument ==
    \A t \in Tasks :
        ( /\ tasks[t].pc = "done" /\ tasks[t].op = "slice"
          /\ tasks[t].data # Absent
          /\ AnalyzeData(tasks[t].data).exc = "none" )
        => tasks[t].used = AnalyzeData(tasks[t].data)

(***************************************************************************)
(* Claims on the engine (SpecEngine)                                       *)
(***************************************************************************)
Described == analysis.exc = "none"

Sliced == Described /\ request.made

AcceptedRange == IsValidFormat(request.date_range)

\* C2: for every document and every descriptor d of its catalog, slice of d.name
\* against the document and that catalog, with any date range of an accepted
\* format, never fails with the MetricNotFound error ("... not found in
\* dataset ...").
C2_CatalogNamesAreFound ==
    (Sliced /\ request.metric \in MetricNames(analysis) /\ AcceptedRange)
    => /\ result.cls # "MetricNotFound"
       /\ ~Contains(result.msg, <<"n", "o", "t", " ", "f", "o", "u", "n", "d", " ", "i", "n", " ", "d", "a", "t",
          "a", "s", "e", "t">>)

\* the name of a per-field descriptor, sliced under a custom range, returns
C2_Witness ==
    /\ Sliced /\ request.date_range = r_custom
    /\ \E i \in 1..Len(analysis.availableMetrics) :
            /\ analysis.availableMetrics[i].name = request.metric
            /\ analysis.availableMetrics[i].type = "groupedSeries"
            /\ ~analysis.availableMetrics[i].isTimeGrouped
    /\ result.exc = "none" /\ result.dates # <<>>

\* C3: in every result slice returns normally, for every metric type and every
\* accepted date range, each series has exactly as many values as there are
\* categories ("dates"), also where a series of the document carries fewer values
\* than the document has dates.
C3_SeriesAsLongAsCategories ==
    (Sliced /\ result.exc = "none")
    => \A j \in 1..Len(result.values) :
            Len(result.values[j].values) = Len(result.dates)

\* a {dates, values} mapping with two dates and a series of one value, sliced to
\* the one date the series has a value for
C3_Witness ==
    /\ Sliced /\ result.exc = "none"
    /\ result.dates # <<>> /\ result.values # <<>>
    /\ IsDict(doc) /\ Len(doc.ks) = 1 /\ IsDict(doc.vs[1]) /\ IsGroupedShape(doc.vs[1])
    /\ Len(Item(doc.vs[1], s_dates).vs) = 2
    /\ \E j \in 1..Len(Item(doc.vs[1], s_values).vs) :
            LET series == Item(doc.vs[1], s_values).vs[j]
            IN  IsDict(series) /\ HasKey(series, s_values)
                /\ Len(Item(series, s_values).vs) = 1

\* C4: for every document, no two descriptors of the catalog analyze_data
\* produces have the same name, also for a key holding {date, value} records and
\* for keys that contain a dot.
C4_UniqueNames ==
    Described
    => \A i, j \in 1..Len(analysis.availableMetrics) :
            i # j => analysis.availableMetrics[i].name # analysis.availableMetrics[j].name

\* C5: for every document and every descriptor d of its catalog, the per-field
\* descriptors "<container>.<field>" included, splitting d.name on "." and
\* looking the keys up one after the other from the root of the document reaches
\* a value of the document, not null.
C5_NamesResolve ==
    Described
    => \A i \in 1..Len(analysis.availableMetrics) :
            GetNestedValue(doc, analysis.availableMetrics[i].name) # Null

\* C6: analyze_data never raises: for every JSON tree it returns a DataAnalysis,
\* and a shape it cannot classify produces no descriptor instead of an error.
C6_AnalyzeNeverRaises == analysis.exc \in {"unset", "none"}

\* a document of one key, the key and what it holds
OneKey == IsDict(doc) /\ Len(doc.ks) = 1

OnlyKey == doc.ks[1]

OnlyValue == doc.vs[1]

OneList == OneKey /\ IsList(OnlyValue) /\ OnlyValue.vs # <<>>

IsRecord(item) == IsDict(item) /\ HasKey(item, s_date) /\ HasKey(item, s_value)

IsMonth(date_range) == Len(date_range) = 7 /\ YearOrMonthPattern(date_range)

C8_Case ==
    /\ OneList
    /\ \A i \in 1..Len(OnlyValue.vs) :
            IsRecord(OnlyValue.vs[i]) /\ IsStr(Item(OnlyValue.vs[i], s_date))

\* C8: for a document whose only key holds a non-empty sequence of {date, value}
\* records, the catalog has one timeSeries descriptor, named by the key, with the
\* value type of the key ("revenue" gives currency), and slice of that name with
\* a YYYY-MM range returns as categories exactly the dates of the records whose
\* date starts with the range, in document order, and a single series, labelled
\* with the descriptor's description, of those records' values.
C8_TimeSeriesScenario ==
    (C8_Case /\ analysis.exc # "unset")
    => LET m == analysis.availableMetrics
           ts == {i \in 1..Len(m) : m[i].type = "timeSeries"}
           items == OnlyValue.vs
           kept == KeepAt(items, {i \in 1..Len(items) :
                                     StartsWith(Item(items[i], s_date).s, request.date_range)})
       IN  /\ Described
           /\ Cardinality(ts) = 1
           /\ \A i \in ts :
                /\ m[i].name = OnlyKey
                /\ OnlyKey = k_revenue => m[i].valueType = "currency"
                /\ OnlyKey = k_byChannel => m[i].valueType = "generic"
                /\ (request.made /\ request.metric = OnlyKey /\ IsMonth(request.date_range))
                   => /\ result.exc = "none"
                      /\ result.dates = [k \in 1..Len(kept) |-> Item(kept[k], s_date)]
                      /\ result.values =
                            << [label |-> StrV(m[i].description),
                                values |-> [k \in 1..Len(kept) |-> Item(kept[k], s_value)]] >>

\* two records, one of them in the month asked for
C8_Witness ==
    /\ C8_Case /\ Sliced
    /\ request.metric = OnlyKey /\ request.date_range = r_month
    /\ Len(OnlyValue.vs) = 2 /\ Len(result.dates) = 1

\* the fields of item that hold a number (Python counts true and false in), in
\* item order, "date" left out where but_date
NumberFields(item, but_date) ==
    KeepAt(item.ks, {i \in 1..Len(item.ks) :
                        IsNumber(item.vs[i]) /\ (but_date => item.ks[i] # s_date)})

LabelKeys == <<s_connector, s_label, s_name>>

\* the value of the first of connector, label, name that picks, else "Unknown"
FirstOf(item, picks(_)) ==
    LET hits == {k \in 1..Len(LabelKeys) : picks(Get(item, LabelKeys[k]))}
    IN  IF hits = {} THEN StrV(s_Unknown)
        ELSE Get(item, LabelKeys[CHOOSE k \in hits : \A h \in hits : k <= h])

Present(v) == v # Null

C9_Rows ==
    /\ OneList
    /\ \A i \in 1..Len(OnlyValue.vs) : IsDict(OnlyValue.vs[i]) /\ ~IsRecord(OnlyValue.vs[i])

\* the container descriptor, then one groupedSeries descriptor per field with the
\* same groupingFields; the container's slice: one category per item, one series
\* per field, labelled with the field, of the items' values (0 where an item
\* lacks the field)
C9_Holds(fields, labels) ==
    LET m == analysis.availableMetrics
        items == OnlyValue.vs
    IN  /\ Described
        /\ Len(m) = 1 + Len(fields)
        /\ m[1].name = OnlyKey /\ m[1].type = "embeddedMetrics"
        /\ \A k \in 1..Len(fields) :
                /\ m[1 + k].name = OnlyKey \o <<".">> \o fields[k]
                /\ m[1 + k].type = "groupedSeries"
                /\ m[1 + k].groupingFields = m[1].groupingFields
        /\ (request.made /\ request.metric = OnlyKey /\ AcceptedRange)
           => /\ result.exc = "none"
              /\ result.dates = labels
              /\ result.values =
                    [k \in 1..Len(fields) |->
                        [label |-> StrV(fields[k]),
                         values |-> [i \in 1..Len(items) |->
                                        GetOr(items[i], fields[k], IntV(0))]]]

C7_ValueTypeRules ==
    value_type # "unset"
    => LET key_lower == Lower(classified_key)
       IN  /\ classified_key = <<"g", "r", "o", "s", "s", "M", "a", "r", "g", "i", "n">>
              => value_type = "currency"
           /\ classified_key = <<"m", "a", "r", "g", "i", "n", "P", "e", "r", "c", "e", "n", "t", "a", "g", "e">>
              => value_type # "currency"
           /\ ( /\ classified_key = <<"t", "o", "t", "a", "l", "O", "r", "d", "e", "r", "s">>
                /\ IsIntegral(classified_sample) )
              => value_type = "count"
           /\ ( /\ \E i \in 1..Len(currency_keywords) :
                        Contains(key_lower, currency_keywords[i])
                /\ ~(Contains(key_lower, s_margin) /\ Contains(key_lower, s_percentage)) )
              => value_type = "currency"

(***************************************************************************)
(* Claims on the chart-suggestion ranker (SpecSuggestions)                 *)
(***************************************************************************)
\* what the six rules emit for the catalog, by descending confidence
C10_Expected ==
    LET m == catalog
        named(i, words) ==
            \E w \in words : Contains(Lower(m[i].name), w)
        emit(fires, chartType, confidence) ==
            IF fires THEN <<[chartType |-> chartType, confidence |-> confidence]>> ELSE <<>>
    IN  emit(\E i \in 1..Len(m) : m[i].isTimeGrouped /\ m[i].groupingFields = <<>>,
             "line", 90)
        \o emit(\E i \in 1..Len(m) : m[i].groupingFields # <<>>, "stacked-bar", 85)
        \o emit(Cardinality({i \in 1..Len(m) : m[i].type = "scalar"}) >= 2, "bar", 80)
        \o emit(\E i \in 1..Len(m) : m[i].type \in {"embeddedMetrics", "dynamicKeyObject"},
                "bar", 75)
        \o emit(\E i \in 1..Len(m) :
                    named(i, { <<"c", "h", "a", "n", "g", "e">>,
                               <<"d", "e", "l", "t", "a">> }),
                "waterfall", 70)
        \o emit(\E i \in 1..Len(m) :
                    \/ m[i].groupingFields # <<>> /\ m[i].isTimeGrouped
                    \/ m[i].type = "embeddedMetrics" /\ Len(m[i].groupingFields) > 3
                    \/ named(i, { <<"c", "o", "r", "r", "e", "l", "a", "t", "i", "o", "n">>,
                                  <<"p", "a", "t", "t", "e", "r", "n">>,
                                  <<"i", "n", "t", "e", "n", "s", "i", "t", "y">>,
                                  <<"d", "e", "n", "s", "i", "t", "y">> }),
                "heatmap", 65)

\* C10: for every catalog the ranker's output is exactly what the six rules emit
\* (line 0.90, bar 0.80, stacked-bar 0.85, bar 0.75, waterfall 0.70, heatmap
\* 0.65, each under its condition), each rule at most once, by strictly
\* descending confidence.
C10_RankedSuggestions ==
    suggestions.made
    => /\ [i \in 1..Len(suggestions.list) |->
              [chartType |-> suggestions.list[i].chartType,
               confidence |-> suggestions.list[i].confidence]] = C10_Expected
       /\ \A i \in 1..(Len(suggestions.list) - 1) :
              suggestions.list[i].confidence > suggestions.list[i + 1].confidence

\* a catalog for which five of the rules fire, both bar rules among them
C10_Witness ==
    /\ suggestions.made /\ Len(suggestions.list) = 5
    /\ Cardinality({i \in 1..5 : suggestions.list[i].chartType = "bar"}) = 2

(***************************************************************************)
(* Claims on the date window (SpecDateRange)                               *)
(***************************************************************************)
\* the last calendar day of a month
C11_LastDay(year, month) ==
    CASE month \in {1, 3, 5, 7, 8, 10, 12} -> 31
      [] month \in {4, 6, 9, 11} -> 30
      [] OTHER -> IF year % 400 = 0 \/ (year % 4 = 0 /\ year % 100 # 0) THEN 29 ELSE 28

\* C11: for every YYYY-MM expression with month 01..12, _parse_date_range returns
\* the window from day 1 of the month at 00:00:00.000Z to the last calendar day of
\* the month at 23:59:59.999Z ("2024-02" ends on 2024-02-29, "2023-02" on
\* 2023-02-28, "2024-12" on 2024-12-31), without failing on the year rollover.
C11_MonthWindow ==
    \A y \in RangeYears, m \in 1..12 :
        (arguments.date_range = MonthExpression(y, m) /\ returned # NoCall)
        => /\ returned.exc = "none"
           /\ returned.start_date = MonthExpression(y, m) \o <<"-", "0", "1", "T", "0", "0", ":", "0", "0", ":", "0", "0", ".", "0", "0", "0", "Z">>
           /\ returned.end_date = MonthExpression(y, m) \o <<"-">>
                                  \o Pad(C11_LastDay(y, m), 2) \o <<"T", "2", "3", ":", "5", "9", ":", "5", "9", ".", "9", "9", "9", "Z">>

(***************************************************************************)
(* Claims on the dynamic-key test (SpecDynamicKey)                         *)
(***************************************************************************)
KeySet(mapping) == {mapping.ks[i] : i \in 1..Len(mapping.ks)}

\* the four conditions; lettered asks what else a key must hold
C12_Conditions(lettered) ==
    /\ IsDict(arguments) /\ arguments.ks # <<>>
    /\ \A i \in 1..Len(arguments.ks) :
            LET key == arguments.ks[i]
            IN  /\ Len(key) > 20
                /\ \A c \in 1..Len(key) : IsAlnumChar(key[c]) \/ key[c] = "-"
                /\ lettered => \E c \in 1..Len(key) : IsAlnumChar(key[c])
    /\ \A i \in 1..Len(arguments.vs) : IsDict(arguments.vs[i])
    /\ \A i, j \in 1..Len(arguments.vs) : KeySet(arguments.vs[i]) = KeySet(arguments.vs[j])

C12_NoDynamicDescriptor ==
    (returned.analysis.exc = "none" /\ IsDict(arguments) /\ k_US \in KeySet(arguments))
    => \A i \in 1..Len(returned.analysis.availableMetrics) :
            returned.analysis.availableMetrics[i].type # "dynamicKeyObject"

\* C12 as the specification states it: the test accepts a mapping if and only if
\* it is non-empty, every key is longer than 20 characters and consists only of
\* alphanumeric characters and hyphens, every value is a mapping and all value
\* mappings have the same key set; a mapping with the short key "US" is rejected
\* and no dynamicKeyObject descriptor is emitted for it.
C12_AsStated ==
    /\ returned.tested => (returned.accepted <=> C12_Conditions(FALSE))
    /\ C12_NoDynamicDescriptor

\* C12, amended: as above, where every key also holds at least one alphanumeric
\* character (a key of hyphens only is rejected).
C12_DynamicKeyTest ==
    /\ returned.tested => (returned.accepted <=> C12_Conditions(TRUE))
    /\ C12_NoDynamicDescriptor

\* a mapping of two id keys whose values match is accepted, and analysed
C12_Witness ==
    /\ returned.tested /\ returned.accepted /\ Len(arguments.ks) = 2
    /\ returned.analysis.exc = "none"
    /\ \E i \in 1..Len(returned.analysis.availableMetrics) :
            returned.analysis.availableMetrics[i].type = "dynamicKeyObject"

(***************************************************************************)
(* Claims on the calls of MetricsService (Spec)                            *)
(***************************************************************************)
\* task t takes a step of a slice call: the call starts, or its fetch ends
SliceStep(t) ==
    /\ tasks'[t] # tasks[t]
    /\ tasks'[t].op = "slice"

\* C13: a slice call is a pure read: in any interleaving with other calls, no
\* step of a slice call changes the cached documents, the key set of the cache
\* or the stored DataAnalysis.
C13_SliceIsPureRead ==
    [][ \A t \in Tasks :
            SliceStep(t) => (cache' = cache /\ data_analysis' = data_analysis) ]_vars

\* the calls whose upstream fetch for cache_key has not answered yet
InFlight(cache_key) ==
    {t \in Tasks : tasks[t].pc = "fetching" /\ CacheKey(tasks[t].date_range) = cache_key}

\* C14: for every interleaving of concurrent load, get_data_analysis and slice
\* calls on one service, at most one upstream fetch is in flight for any cache
\* key at any time.
C14_OneFetchPerKey == \A cache_key \in CacheKeys : Cardinality(InFlight(cache_key)) <= 1

(***************************************************************************)
(* Claims on the engine (SpecEngine), continued                            *)
(***************************************************************************)
\* the least position of a non-empty set of positions
FirstPosition(S) == CHOOSE i \in S : \A j \in S : i <= j

NamedRequest == Sliced /\ AcceptedRange /\ ~IsBlank(request.metric)

ExactPositions ==
    {i \in 1..Len(analysis.availableMetrics) :
        Lower(analysis.availableMetrics[i].name) = Lower(request.metric)}

SubstringPositions ==
    {i \in 1..Len(analysis.availableMetrics) :
        \/ Contains(Lower(analysis.availableMetrics[i].name), Lower(request.metric))
        \/ Contains(Lower(request.metric), Lower(analysis.availableMetrics[i].name))}

\* the outcome of slice when it goes on with the descriptor at position i
OutcomeWith(i) ==
    Boundary(Dispatch(doc, analysis.availableMetrics[i], request.date_range), request.metric)

\* C15: slice uses the first descriptor, in catalog order, whose name equals the
\* requested name case-insensitively, also when an earlier descriptor matches by
\* substring; with no such descriptor, the first whose name contains the
\* requested name or is contained in it; with none, it fails with MetricNotFound
\* and the message holds the name of every descriptor of the catalog.
C15_MetricResolution ==
    NamedRequest
    => IF ExactPositions # {} THEN result = OutcomeWith(FirstPosition(ExactPositions))
       ELSE IF SubstringPositions # {}
       THEN result = OutcomeWith(FirstPosition(SubstringPositions))
       ELSE /\ result.exc = "Exception" /\ result.cls = "MetricNotFound"
            /\ \A i \in 1..Len(analysis.availableMetrics) :
                    Contains(result.msg, analysis.availableMetrics[i].name)

\* an exact match behind a descriptor that matches by substring, with an outcome
\* that differs from the one the earlier descriptor gives
C15_Witness ==
    /\ NamedRequest /\ ExactPositions # {}
    /\ FirstPosition(SubstringPositions) < FirstPosition(ExactPositions)
    /\ result.exc = "none"
    /\ result # OutcomeWith(FirstPosition(SubstringPositions))

\* C16: when the upstream collaborator fails during load, get_data_analysis or
\* slice, the error reaching the caller is the collaborator's error unchanged, so
\* a missing API token and a failed fetch give the caller distinguishable errors.
C16_UpstreamErrorUnchanged ==
    \A t \in Tasks :
        (tasks[t].pc = "done" /\ tasks[t].raised # <<>>)
        => /\ tasks[t].outcome.exc # "none"
           /\ tasks[t].outcome.msg = tasks[t].raised

\* C17: the groupBy argument has no effect on slice: for every document, catalog,
\* metric name and date range, calls that differ only in groupBy (any string or
\* absent) have the same outcome, the same series or the same error.
C17_GroupByHasNoEffect ==
    Sliced
    => \A group_by \in GroupBys :
            result = SliceCore(doc, analysis, request.metric, request.date_range, group_by)

\* a call with a grouping dimension that returns a series with values
C17_Witness ==
    /\ Sliced /\ request.group_by = s_connector
    /\ result.exc = "none" /\ result.dates # <<>> /\ result.values # <<>>

(***************************************************************************)
(* Claims on find_best_metric_match (SpecBestMatch)                        *)
(***************************************************************************)
\* the keyword score of the specification: one point per prompt token that
\* contains or is contained in a fragment of the name split at capitals, dots,
\* underscores, hyphens and blanks, plus 2 if a string of sampleValue matches a
\* prompt token
C18_Score(metric) ==
    LET tokens == PromptKeywords(Lower(arguments.prompt))
        split == MetricKeywords(metric.name)
        fragments == [i \in 1..Len(split) |-> Lower(split[i])]
        matches(a, b) == Contains(a, b) \/ Contains(b, a)
        points == Cardinality({k \in 1..Len(tokens) :
                                \E i \in 1..Len(fragments) :
                                    fragments[i] # <<>> /\ matches(tokens[k], fragments[i])})
        bonus == /\ IsList(metric.sampleValue)
                 /\ \E i \in 1..Len(metric.sampleValue.vs), k \in 1..Len(tokens) :
                        /\ IsStr(metric.sampleValue.vs[i])
                        /\ matches(Lower(metric.sampleValue.vs[i].s), tokens[k])
    IN  points + (IF bonus THEN 2 ELSE 0)

\* C18: find_best_metric_match returns the descriptor with the highest keyword
\* score, none when the best score is 0, and on equal maximum scores the
\* descriptor that comes first in catalog order.
C18_HighestScoreFirst ==
    returned # NoCall
    => LET metrics == arguments.metrics
           best == {i \in 1..Len(metrics) :
                      \A j \in 1..Len(metrics) : C18_Score(metrics[j]) <= C18_Score(metrics[i])}
           first == CHOOSE i \in best : \A j \in best : i <= j
       IN  IF metrics = <<>> \/ C18_Score(metrics[first]) = 0
           THEN ~returned.found
           ELSE returned.found /\ returned.metric = metrics[first]

(***************************************************************************)
(* Claims on the date window and the local filter (SpecWindow)             *)
(***************************************************************************)
\* the date-only portion of a bound of the window
C19_DateOnly(bound) == SplitOn(bound, "T")[1]

\* C19: for every expression slice accepts, _parse_date_range and the slicers
\* select the same rule, and a record dated YYYY-MM-DD is kept exactly when its
\* date lies inside the window _parse_date_range returns; and every expression
\* for which _parse_date_range builds a window by rules 2 to 5 is accepted by
\* slice.
C19_ParseAndFilterAgree ==
    returned # NoCall
    => LET date_range == arguments.date_range
           window == returned.window
           inside == /\ StrLE(C19_DateOnly(window.start_date), arguments.date)
                     /\ StrLE(arguments.date, C19_DateOnly(window.end_date))
       IN  /\ returned.accepted
               => /\ SelectedRule(date_range) = FilterRule(date_range)
                  /\ returned.kept.exc = "none"
                  /\ Truthy(returned.kept.val) <=> inside
           /\ (window.exc = "none" /\ SelectedRule(date_range) \in 2..5)
               => returned.accepted

\* a {dates, values} mapping whose dates are strings, at least one, and whose
\* series all carry a label and a value for every date
C20_WellFormed(mapping) ==
    /\ IsDict(mapping) /\ HasKey(mapping, s_dates) /\ HasKey(mapping, s_values)
    /\ IsList(Item(mapping, s_dates)) /\ IsList(Item(mapping, s_values))
    /\ LET dates == Item(mapping, s_dates).vs
           values == Item(mapping, s_values).vs
       IN  /\ dates # <<>> /\ values # <<>>
           /\ \A i \in 1..Len(dates) : IsStr(dates[i])
           /\ \A j \in 1..Len(values) :
                /\ IsDict(values[j]) /\ HasKey(values[j], s_label) /\ HasKey(values[j], s_values)
                /\ IsList(Item(values[j], s_values))
                /\ Len(Item(values[j], s_values).vs) >= Len(dates)

\* the dates that pass the date test as categories, and every series in its
\* order, with its label and its values at the positions of those dates
C20_Projected(mapping, date_range) ==
    LET dates == Item(mapping, s_dates).vs
        values == Item(mapping, s_values).vs
        filtered_indices == {i \in 1..Len(dates) : Truthy(DateFilter(date_range, dates[i]).val)}
    IN  Returned(KeepAt(dates, filtered_indices),
                 [j \in 1..Len(values) |->
                    Series(Item(values[j], s_label),
                           KeepAt(SubSeq(Item(values[j], s_values).vs, 1, Len(dates)),
                                  filtered_indices))])

\* the descriptor the request resolves to is a groupedSeries over a well-formed
\* {dates, values} mapping, and the date range is one slice accepts
C20_GroupedRequest ==
    /\ Sliced /\ analysis.exc = "none"
    /\ ~IsBlank(request.metric) /\ IsValidFormat(request.date_range)
    /\ LET i == FindMetric(analysis.availableMetrics, request.metric)
       IN  /\ i # 0
           /\ analysis.availableMetrics[i].type = "groupedSeries"
           /\ C20_WellFormed(GetNestedValue(doc, analysis.availableMetrics[i].name))

\* C20: for every groupedSeries descriptor analyze emits for a {dates, values}
\* mapping, top-level or reached under a dotted path, slice returns the dates
\* that pass the date test as categories and every series, in order and with its
\* label, projected to the positions of those dates; a nested mapping with dates
\* inside the range gives a non-empty result.
C20_GroupedSeriesProjected ==
    C20_GroupedRequest
    => LET i == FindMetric(analysis.availableMetrics, request.metric)
           mapping == GetNestedValue(doc, analysis.availableMetrics[i].name)
       IN  result = C20_Projected(mapping, request.date_range)

(***************************************************************************)
(* Claims on the slicers of dynamic-key objects (SpecEngine)               *)
(***************************************************************************)
\* the request is one slice works on, and the descriptor it resolves to
ResolvedRequest ==
    /\ Sliced /\ ~IsBlank(request.metric) /\ request.date_range # <<>>
    /\ IsValidFormat(request.date_range)
    /\ FindMetric(analysis.availableMetrics, request.metric) # 0

Resolved == analysis.availableMetrics[FindMetric(analysis.availableMetrics, request.metric)]

ContainerPath(name) ==
    LET path_parts == SplitOn(name, ".")
    IN  JoinWith(SubSeq(path_parts, 1, Len(path_parts) - 1), <<".">>)

FieldOf(name) == LET path_parts == SplitOn(name, ".") IN path_parts[Len(path_parts)]

\* one category per entry: name, else officialName, else the raw key
C21_Categories(container) ==
    [i \in 1..Len(container.ks) |-> EntryLabel(container.ks[i], container.vs[i])]

\* the request resolves to a per-field descriptor "container.field" of a
\* dynamic-key object of the document
C21_PerFieldRequest ==
    /\ ResolvedRequest
    /\ Resolved.type = "groupedSeries" /\ Contains(Resolved.name, <<".">>)
    /\ LET container == GetNestedValue(doc, ContainerPath(Resolved.name))
       IN  /\ IsDynamicKeyObject(container)
           /\ \E k \in 1..Len(container.vs[1].ks) :
                /\ container.vs[1].ks[k] = FieldOf(Resolved.name)
                /\ IsNumber(container.vs[1].vs[k])

\* C21: slicing a per-field descriptor "container.field" of a dynamic-key object
\* yields one category per entry of the container (name, else officialName, else
\* the raw key) in the order of the mapping, and a single series labeled with
\* the descriptor's description whose values are each entry's value of the
\* field; the result is not empty.
C21_PerFieldSliced ==
    C21_PerFieldRequest
    => LET container == GetNestedValue(doc, ContainerPath(Resolved.name))
       IN  /\ result.exc = "none"
           /\ result.dates # <<>> /\ result.dates = C21_Categories(container)
           /\ Len(result.values) = 1
           /\ result.values[1].label = StrV(Resolved.description)
           /\ result.values[1].values =
                [i \in 1..Len(container.vs) |-> Item(container.vs[i], FieldOf(Resolved.name))]

\* the request resolves to the container descriptor of a dynamic-key object
\* whose first entry has a numeric field
C22_ContainerRequest ==
    /\ ResolvedRequest
    /\ Resolved.type = "dynamicKeyObject"
    /\ LET container == GetNestedValue(doc, Resolved.name)
       IN  /\ IsDynamicKeyObject(container)
           /\ NumericKeys(container.vs[1], NoKey) # <<>>

\* C22: for a dynamicKeyObject container descriptor, at top level or at a dotted
\* path, slice takes the name as the container: the series is the first numeric
\* field of the first entry, labeled "<field> by account", with each entry's
\* value of that field; the last segment of the container's name is never the
\* field extracted.
C22_ContainerSliced ==
    C22_ContainerRequest
    => LET container == GetNestedValue(doc, Resolved.name)
           first_numeric_key == NumericKeys(container.vs[1], NoKey)[1]
       IN  result = Returned(C21_Categories(container),
                             << Series(StrV(first_numeric_key
                                         \o <<" ", "b", "y", " ", "a", "c", "c", "o", "u", "n", "t">>),
                                       [i \in 1..Len(container.vs) |->
                                          GetOr(container.vs[i], first_numeric_key, IntV(0))]) >>)

(***************************************************************************)
(* Claims on slice over a cached document (SpecCached)                     *)
(***************************************************************************)
\* the descriptor the call resolves its metric to, a position of the catalog
C23_Found == FindMetric(AnalyzeData(arguments.analysed).availableMetrics, arguments.metric)

\* slice dispatches a dynamicKeyObject container descriptor, and the first entry
\* of the mapping the name resolves to has no numeric field
C23_NothingToSelect ==
    /\ returned # NoCall
    /\ IsValidFormat(arguments.date_range)
    /\ AnalyzeData(arguments.analysed).exc = "none"
    /\ C23_Found # 0
    /\ LET metric_info == AnalyzeData(arguments.analysed).availableMetrics[C23_Found]
           raw_data == GetNestedValue(arguments.data, metric_info.name)
       IN  /\ metric_info.type = "dynamicKeyObject"
           /\ ~Contains(metric_info.name, <<".">>)
           /\ IsDict(raw_data) /\ raw_data.ks # <<>> /\ AllDicts(raw_data.vs)
           /\ NumericKeys(raw_data.vs[1], NoKey) = <<>>

\* C23: when slice dispatches a dynamicKeyObject container descriptor and the
\* first entry of the resolved mapping has no numeric field to select, slice
\* fails with an error of the UnsupportedMetricType class and returns no
\* (empty) result.
C23_NoNumericFieldFails ==
    C23_NothingToSelect
    => returned.exc # "none" /\ returned.cls = "UnsupportedMetricType"

\* the position of the descriptor called name in the catalog, 0 if there is none
C24_Named(name) ==
    LET hits == {i \in 1..Len(analysis.availableMetrics) :
                    analysis.availableMetrics[i].name = name}
    IN  IF hits = {} THEN 0 ELSE CHOOSE i \in hits : \A j \in hits : i <= j

\* a non-empty sequence of records that all carry a value and whose date, where
\* there is one, is a string
C24_Records(value) ==
    /\ IsList(value) /\ value.vs # <<>>
    /\ \A i \in 1..Len(value.vs) :
        /\ IsDict(value.vs[i]) /\ HasKey(value.vs[i], s_value)
        /\ HasKey(value.vs[i], s_date) => IsStr(Item(value.vs[i], s_date))
    /\ \E i \in 1..Len(value.vs) : HasKey(value.vs[i], s_date)

\* the request resolves to the groupedSeries descriptor "X.value" of a key X that
\* holds {date, value} records and has a timeSeries descriptor "X"
C24_ValueFieldRequest ==
    /\ ResolvedRequest
    /\ Resolved.type = "groupedSeries"
    /\ FieldOf(Resolved.name) = s_value /\ Contains(Resolved.name, <<".">>)
    /\ C24_Records(GetNestedValue(doc, ContainerPath(Resolved.name)))
    /\ C24_Named(ContainerPath(Resolved.name)) # 0
    /\ analysis.availableMetrics[C24_Named(ContainerPath(Resolved.name))].type = "timeSeries"

\* C24: for a key X holding a sequence of {date, value} records and every
\* accepted date range, slicing the groupedSeries descriptor "X.value" returns
\* the categories and the series values that slicing the timeSeries descriptor
\* "X" returns, also when the first record's date is empty or a later record has
\* no date.
C24_ValueFieldAsTimeSeries ==
    C24_ValueFieldRequest
    => LET X == analysis.availableMetrics[C24_Named(ContainerPath(Resolved.name))]
           as_time_series == SliceTimeSeries(doc, X, request.date_range)
       IN  /\ (result.exc = "none") <=> (as_time_series.exc = "none")
           /\ result.exc = "none"
               => /\ result.dates = as_time_series.dates
                  /\ Len(result.values) = Len(as_time_series.values)
                  /\ \A j \in 1..Len(result.values) :
                        result.values[j].values = as_time_series.values[j].values

(***************************************************************************)
(* Claims on the schema walk (SpecWalk)                                    *)
(***************************************************************************)
\* the walk of the document has returned
Walked == returned # NoCall /\ returned.exc = "none" /\ returned.frames = <<>>

\* the walk call by call finds what the recursion finds, in its order
WalkAsRecursion ==
    Walked => returned.metrics = ExtractMetricsRecursively(arguments.data, <<>>, 0).metrics

\* C25: the walk recurses into a value only if it is a non-empty mapping, no
\* dynamic-key object, no {dates, values} mapping, and the path to it has at
\* most 5 keys; so every descriptor of the single-node classifier lies at a path
\* of at most 6 keys, and the depth cutoff of 10 never stops the walk.
C25_WalkBounded ==
    returned # NoCall
    => /\ \A i \in 1..Len(returned.recursed) :
            LET into == returned.recursed[i]
            IN  /\ IsDict(into.value) /\ into.value.ks # <<>>
                /\ ~IsDynamicKeyObject(into.value)
                /\ ~IsGroupedShape(into.value)
                /\ Len(into.path) <= 5
       /\ \A i \in 1..Len(returned.classified) : Len(returned.classified[i]) <= 6
       /\ \A i \in 1..Len(returned.frames) : returned.frames[i].depth <= 10
       /\ ~returned.cut

\* the walk of a document nested deeper than the limit has returned: it
\* recursed to a path of 5 keys, classified a value at a path of 6, and left
\* the mappings below alone
C25_Witness ==
    /\ Walked
    /\ GetNestedValue(arguments.data,
                      JoinWith([i \in 1..8 |-> k_net], <<".">>)) # Null
    /\ \E i \in 1..Len(returned.recursed) : Len(returned.recursed[i].path) = 5
    /\ \E i \in 1..Len(returned.classified) : Len(returned.classified[i]) = 6

(***************************************************************************)
(* Claims on the errors of slice (SpecEngine)                              *)
(***************************************************************************)
\* the error of the try block reaches the caller as it was raised
C26_Unchanged(cls, msg) ==
    /\ result.exc # "none" /\ ~result.wrapped
    /\ result.cls = cls /\ result.msg = msg

C27_Succeeds(i) ==
    LET spec == arguments.chart_specs[i]
    IN  SliceCore(DashboardDocument, AnalyzeData(DashboardDocument),
                  spec.metric, spec.dateRange, spec.groupBy).exc = "none"

\* C27: the failure of any of the gathered slices leaves the others alone: the
\* charts of the response are exactly the charts whose slice succeeded, in the
\* order of the specifications, each with the id and the grid position of its
\* own specification's index, and totalCharts is the length of the charts on
\* every return path.
C27_PartialSuccess ==
    (returned # NoCall /\ returned.pc = "done")
    => LET response == returned.response
           succeeded == IF arguments.upstream = "fails" THEN <<>>
                        ELSE Ascending({i \in 1..Len(arguments.chart_specs) : C27_Succeeds(i)})
       IN  /\ response.totalCharts = Len(response.charts)
           /\ Len(response.charts) = Len(succeeded)
           /\ \A k \in 1..Len(succeeded) :
                LET chart == response.charts[k]
                    index == succeeded[k] - 1
                IN  /\ chart.metric = arguments.chart_specs[succeeded[k]].metric
                    /\ chart.dateRange = arguments.chart_specs[succeeded[k]].dateRange
                    /\ chart.id = <<"c", "h", "a", "r", "t", "_">> \o IntToStr(index + 1)
                    /\ chart.row = (index \div 2) + 1
                    /\ chart.col = (index % 2) + 1

\* three charts asked for, the second one failed: the response holds chart_1 and
\* chart_3
C27_Witness ==
    /\ returned # NoCall /\ returned.pc = "done"
    /\ Len(arguments.chart_specs) = 3
    /\ C27_Succeeds(1) /\ ~C27_Succeeds(2) /\ C27_Succeeds(3)
    /\ Len(returned.response.charts) = 2
    /\ returned.response.charts[2].id = <<"c", "h", "a", "r", "t", "_", "3">>
    /\ returned.response.charts[2].row = 2

(***************************************************************************)
(* Claims on the date window (SpecDateRange), continued                    *)
(***************************************************************************)
\* expressions that are no well-formed custom range, day, year or month: a month
\* 00 or 13, letters for digits, three halves, a year of five digits, a word
C28_Malformed ==
    {MonthExpression(y, m) : y \in RangeYears, m \in {0, 13}}
    \cup {r_threeHalves, r_letters, r_longYear, r_word}

\* C28: _parse_date_range is total: for every string, and for no value, it
\* returns a (start, end) pair and never raises; an expression that is no
\* well-formed instance of rules 2 to 5 ("2024-13", letters, two commas) yields
\* the window of the 7 days up to now.
C28_ParseIsTotal ==
    returned # NoCall
    => /\ returned.exc = "none"
       /\ arguments.date_range \in C28_Malformed => returned = CurrentWeek(arguments.now)

(***************************************************************************)
(* Claims on the calls of MetricsService (Spec), continued                 *)
(***************************************************************************)
\* the inputs of a slice call fail its validation
C29_Invalid(task) ==
    \/ task.metric = <<>> \/ IsBlank(task.metric)
    \/ task.date_range = <<>> \/ IsBlank(task.date_range)
    \/ ~IsValidFormat(task.date_range)

\* C29: a slice call whose inputs fail validation (blank metric name, blank date
\* range, date range of no accepted format) is rejected before any work is
\* done: it starts no upstream fetch and leaves the cache and the stored
\* DataAnalysis unchanged.
C29_RejectedBeforeWork ==
    [][\A t \in Tasks :
        (tasks'[t] # tasks[t] /\ tasks'[t].op = "slice" /\ C29_Invalid(tasks'[t]))
        => /\ tasks'[t].pc = "done"
           /\ cache' = cache /\ data_analysis' = data_analysis]_vars

\* C30: a load that fails, in the fetch or in the analysis of the fetched
\* document, leaves the service as it was: the cache has no entry for the key
\* and the stored DataAnalysis is the one from before, so every cached key holds
\* a document whose analysis completed and a later load of the key fetches
\* again.
C30_CachedIsAnalysed ==
    \A k \in CacheKeys : cache[k] # Absent => AnalyzeData(cache[k]).exc = "none"

====
